---- MODULE Spec2Model ----
(***************************************************************************)
(* State-machine model of the FooocArte orchestration layer.               *)
(*                                                                         *)
(*  Part 1  modules/global_state_machine.py   GlobalStateMachine           *)
(*  Part 2  modules/batch_state_machine.py    BatchStateMachine            *)
(*  Part 3  modules/batch_engine.py           BatchEngine                  *)
(*          modules/batch_comparator.py       BatchComparator              *)
(*                                                                         *)
(* GlobalStateMachine is shared by several threads.  Every block that the  *)
(* code runs under `with self._lock` is one atomic step; error() and       *)
(* reset() take the lock twice and are therefore two steps each, between   *)
(* which other threads may run.  BatchStateMachine has no lock and is      *)
(* driven by one caller; each of its methods is one step.                  *)
(***************************************************************************)
EXTENDS Integers, Naturals, Sequences, FiniteSets, TLC

VARIABLES
    state,                 \* GlobalStateMachine._state (the enum's value)
    metadata,              \* GlobalStateMachine._metadata (dict: key -> value)
    error_message,         \* GlobalStateMachine._error_message
    state_history,         \* GlobalStateMachine._state_history
    transition_timestamp,  \* GlobalStateMachine._transition_timestamp (logical clock)
    pc,                    \* per thread: where it is inside a public call
    arg,                   \* per thread: the metadata argument of the call in progress
    ret,                   \* per thread: outcome of its last finished call
    estado,                \* BatchStateMachine.estado
    imagen_actual,         \* BatchStateMachine.imagen_actual
    total,                 \* BatchStateMachine.total
    error,                 \* BatchStateMachine.error
    bret,                  \* outcome of the last BatchStateMachine call
    tpc,                   \* tick-loop client: position
    tn,                    \* tick-loop client: the total it passed to iniciar
    ticks,                 \* tick-loop client: tick() calls made so far
    config,                \* BatchEngine.config (BatchConfig)
    clip_threshold,        \* BatchEngine.ui_state["clip_threshold"]
    files,                 \* folder mode: per input file, whether it can be loaded
    stats,                 \* BatchEngine.stats (accepted, rejected, retries)
    pause_event,           \* BatchEngine.pause_event is set
    last_stop,             \* task.last_stop, the cancellation signal
    rpc,                   \* thread in BatchEngine.run: position
    loc,                   \* thread in BatchEngine.run: local variables
    comparator,            \* the BatchComparator of the item being processed
    obs,                   \* what the engine's collaborators have been asked to do
    cpc,                   \* thread calling pause()/resume(): position
    fa,                    \* FooocArteEngine: lifecycle state and batch counters
    interrupt,             \* the pipeline's interrupt flag (model_management)
    savers,                \* background save threads, in the order they were started
    fs,                    \* the checkpoint directory: state.json and state.json.tmp
    rd,                    \* what the last reader of the checkpoint got
    gen,                   \* generate_once: the engine's clip_threshold and the last outcome
    cola,                  \* BatchQueue.cola
    qhist,                 \* what was added to and taken from the queue, and by whom
    in_pipeline,           \* each worker thread's position in its BatchEngine run
    cli                    \* threads sharing one GlobalStateMachine: writer position, readers' observations

gsm_vars == <<state, metadata, error_message, state_history,
              transition_timestamp, pc, arg, ret>>
bsm_vars == <<estado, imagen_actual, total, error, bret>>
drv_vars == <<tpc, tn, ticks>>
eng_vars == <<config, clip_threshold, files, stats, pause_event, last_stop,
              rpc, loc, comparator, obs, cpc>>
per_vars == <<fa, interrupt, savers, fs, rd, gen>>
q_vars == <<cola, qhist>>
sys_vars == <<per_vars, q_vars, in_pipeline, cli, cli>>
vars == <<gsm_vars, bsm_vars, drv_vars, eng_vars, sys_vars>>

(***************************************************************************)
(* Bounds of the model.                                                    *)
(***************************************************************************)
\* Successful transitions explored after the start of a run.
MaxTime == 4
\* Transitions already made when a long-lived machine is picked up (SpecHist).
WarmLen == 97
\* Largest batch total passed to iniciar.
MaxTotal == 15

(***************************************************************************)
(* Part 1: GlobalStateMachine                                              *)
(***************************************************************************)
IDLE == "idle"
PREPARING == "preparing"
RUNNING == "running"
PAUSED == "paused"
CANCELLING == "cancelling"
COMPLETED == "completed"
ERROR == "error"

GlobalState == {IDLE, PREPARING, RUNNING, PAUSED, CANCELLING, COMPLETED, ERROR}

\* Python's None for Optional[str].
None == "None"
\* Error messages passed to error().
Messages == {"m1", "m2"}

\* Calling threads.
Threads == {"t1", "t2"}
MainThread == "t1"

\* An Optional[Dict] argument: None, or a dict d (a function on its keys).
NoneArg == [none |-> TRUE, d |-> <<>>]
Dict(d) == [none |-> FALSE, d |-> d]
\* The metadata arguments tried: None, {}, {'a': 1}, {'b': 1}.
MetaArgs == {NoneArg, Dict(<<>>), Dict("a" :> 1), Dict("b" :> 1)}

\* Python truthiness of an Optional[Dict]: None and {} are falsy.
Truthy(md) == (~md.none) /\ DOMAIN md.d # {}
\* `metadata or {}`.
OrEmpty(md) == IF Truthy(md) THEN md.d ELSE <<>>

\* Mutant: IDLE -> IDLE is in the table, so that reset() is accepted when idle.
VALID_TRANSITIONS_IdleReset ==
    [s \in GlobalState |->
        CASE s = IDLE       -> {PREPARING, IDLE}
          [] s = PREPARING  -> {RUNNING, ERROR}
          [] s = RUNNING    -> {PAUSED, CANCELLING, COMPLETED, ERROR}
          [] s = PAUSED     -> {RUNNING, CANCELLING}
          [] s = CANCELLING -> {IDLE}
          [] s = COMPLETED  -> {IDLE}
          [] s = ERROR      -> {IDLE}]

\* _VALID_TRANSITIONS.
VALID_TRANSITIONS ==
    [s \in GlobalState |->
        CASE s = IDLE       -> {PREPARING}
          [] s = PREPARING  -> {RUNNING, ERROR}
          [] s = RUNNING    -> {PAUSED, CANCELLING, COMPLETED, ERROR}
          [] s = PAUSED     -> {RUNNING, CANCELLING}
          [] s = CANCELLING -> {IDLE}
          [] s = COMPLETED  -> {IDLE}
          [] s = ERROR      -> {IDLE}]

\* Mutant: the validation is skipped.
IsValid_Always(old_state, new_state) == TRUE

\* `new_state in self._VALID_TRANSITIONS.get(self._state, set())`.
IsValid(old_state, new_state) ==
    IF old_state \in DOMAIN VALID_TRANSITIONS
    THEN new_state \in VALID_TRANSITIONS[old_state]
    ELSE FALSE

\* `if metadata: self._metadata.update(metadata)`: the argument's keys win.
UpdateMetadata(old, md) == IF Truthy(md) THEN md.d @@ old ELSE old

\* Mutant: the message survives leaving ERROR.
ClearError_Never(old_state, new_state, msg) == msg

\* `if old_state == ERROR and new_state != ERROR: self._error_message = None`.
ClearError(old_state, new_state, msg) ==
    IF old_state = ERROR /\ new_state # ERROR THEN None ELSE msg

\* The cap on the transition history.
HISTORY_MAX == 100

\* Mutant: pop() instead of pop(0): the newest record is dropped.
RecordHistory_DropNewest(h, rec) ==
    LET a == Append(h, rec)
    IN  IF Len(a) > HISTORY_MAX THEN SubSeq(a, 1, Len(a) - 1) ELSE a

\* append, then `if len(...) > 100: pop(0)`.
RecordHistory(h, rec) ==
    LET a == Append(h, rec)
    IN  IF Len(a) > HISTORY_MAX THEN Tail(a) ELSE a

\* One history record; the timestamp is the logical time of the transition.
TransitionRecord(old_state, new_state, ts, md) ==
    [from |-> old_state, to |-> new_state, timestamp |-> ts, metadata |-> OrEmpty(md)]

\* The state each public operation asks _transition for.
Ops == {"start_generation", "mark_ready", "pause", "resume",
        "cancel", "complete", "error", "reset"}
Target(op) ==
    CASE op = "start_generation" -> PREPARING
      [] op = "mark_ready"       -> RUNNING
      [] op = "pause"            -> PAUSED
      [] op = "resume"           -> RUNNING
      [] op = "cancel"           -> CANCELLING
      [] op = "complete"         -> COMPLETED
      [] op = "error"            -> ERROR
      [] op = "reset"            -> IDLE

\* What a finished call reports: ok, or StateTransitionError, whose text names
\* the state the machine was in (`from`) and the attempted target.
NoRet == [op |-> "none", ok |-> TRUE, from |-> IDLE]
Returned(op, old_state) == [op |-> op, ok |-> TRUE, from |-> old_state]
Raised(op, old_state) == [op |-> op, ok |-> FALSE, from |-> old_state]

\* The body of _transition, run under the lock by thread t for operation op;
\* next_pc is where t continues when the transition succeeds.
Transition(t, op, md, next_pc) ==
    LET new_state == Target(op)
        old_state == state
    IN  IF ~IsValid(state, new_state)
        THEN /\ ret' = [ret EXCEPT ![t] = Raised(op, old_state)]
             /\ pc' = [pc EXCEPT ![t] = "idle"]
             /\ UNCHANGED <<state, metadata, error_message, state_history,
                            transition_timestamp>>
        ELSE /\ state' = new_state
             /\ transition_timestamp' = transition_timestamp + 1
             /\ metadata' = UpdateMetadata(metadata, md)
             /\ error_message' = ClearError(old_state, new_state, error_message)
             /\ state_history' =
                    RecordHistory(state_history,
                        TransitionRecord(old_state, new_state,
                                         transition_timestamp + 1, md))
             /\ pc' = [pc EXCEPT ![t] = next_pc]
             /\ ret' = [ret EXCEPT ![t] =
                          IF next_pc = "idle" THEN Returned(op, old_state)
                          ELSE [Returned(op, old_state) EXCEPT !.op = "reset_pending"]]

\* Logical time at which the explored run began: 0 for a fresh machine.
Epoch == IF transition_timestamp >= WarmLen THEN WarmLen ELSE 0
\* New calls are issued only while the explored run is within MaxTime transitions.
CanCall(t) == pc[t] = "idle" /\ transition_timestamp - Epoch < MaxTime

start_generation(t, md) ==
    /\ CanCall(t)
    /\ Transition(t, "start_generation", md, "idle")
    /\ UNCHANGED <<arg, bsm_vars, drv_vars, eng_vars, sys_vars>>

mark_ready(t) ==
    /\ CanCall(t)
    /\ Transition(t, "mark_ready", NoneArg, "idle")
    /\ UNCHANGED <<arg, bsm_vars, drv_vars, eng_vars, sys_vars>>

pause(t) ==
    /\ CanCall(t)
    /\ Transition(t, "pause", NoneArg, "idle")
    /\ UNCHANGED <<arg, bsm_vars, drv_vars, eng_vars, sys_vars>>

resume(t) ==
    /\ CanCall(t)
    /\ Transition(t, "resume", NoneArg, "idle")
    /\ UNCHANGED <<arg, bsm_vars, drv_vars, eng_vars, sys_vars>>

cancel(t) ==
    /\ CanCall(t)
    /\ Transition(t, "cancel", NoneArg, "idle")
    /\ UNCHANGED <<arg, bsm_vars, drv_vars, eng_vars, sys_vars>>

complete(t, md) ==
    /\ CanCall(t)
    /\ Transition(t, "complete", md, "idle")
    /\ UNCHANGED <<arg, bsm_vars, drv_vars, eng_vars, sys_vars>>

\* error(): first lock section, `self._error_message = error_message`.
error_set(t, msg, md) ==
    /\ CanCall(t)
    /\ error_message' = msg
    /\ pc' = [pc EXCEPT ![t] = "error"]
    /\ arg' = [arg EXCEPT ![t] = md]
    /\ UNCHANGED <<state, metadata, state_history, transition_timestamp, ret,
                   bsm_vars, drv_vars, eng_vars, sys_vars>>

\* error(): then `self._transition(GlobalState.ERROR, metadata)`.
error_transition(t) ==
    /\ pc[t] = "error"
    /\ Transition(t, "error", arg[t], "idle")
    /\ arg' = [arg EXCEPT ![t] = NoneArg]
    /\ UNCHANGED <<bsm_vars, drv_vars, eng_vars, sys_vars>>

\* reset(): `self._transition(GlobalState.IDLE)`; a raise ends the call here.
reset_transition(t) ==
    /\ CanCall(t)
    /\ Transition(t, "reset", NoneArg, "reset")
    /\ UNCHANGED <<arg, bsm_vars, drv_vars, eng_vars, sys_vars>>

\* reset(): second lock section, `self._metadata.clear()`, then return.
reset_clear(t) ==
    /\ pc[t] = "reset"
    /\ metadata' = <<>>
    /\ pc' = [pc EXCEPT ![t] = "idle"]
    /\ ret' = [ret EXCEPT ![t] = [@ EXCEPT !.op = "reset"]]
    /\ UNCHANGED <<state, error_message, state_history, transition_timestamp, arg,
                   bsm_vars, drv_vars, eng_vars, sys_vars>>

GSMInit ==
    /\ state = IDLE
    /\ metadata = <<>>
    /\ error_message = None
    /\ state_history = <<>>
    /\ transition_timestamp = 0
    /\ pc = [t \in Threads |-> "idle"]
    /\ arg = [t \in Threads |-> NoneArg]
    /\ ret = [t \in Threads |-> NoRet]

\* A machine that has already served WarmLen transitions of plain runs
\* (start_generation, mark_ready, complete, reset, ...), none with metadata.
WarmCycle == <<IDLE, PREPARING, RUNNING, COMPLETED>>
WarmState(i) == WarmCycle[(i % 4) + 1]
WarmHistory(n) ==
    LET all == [i \in 1..n |->
                  TransitionRecord(WarmState(i - 1), WarmState(i), i, NoneArg)]
    IN  IF n > HISTORY_MAX THEN SubSeq(all, n - HISTORY_MAX + 1, n) ELSE all

GSMInitWarm ==
    /\ state = WarmState(WarmLen)
    /\ metadata = <<>>
    /\ error_message = None
    /\ state_history = WarmHistory(WarmLen)
    /\ transition_timestamp = WarmLen
    /\ pc = [t \in Threads |-> "idle"]
    /\ arg = [t \in Threads |-> NoneArg]
    /\ ret = [t \in Threads |-> NoRet]

(***************************************************************************)
(* Part 2: BatchStateMachine                                               *)
(***************************************************************************)
INACTIVO == "INACTIVO"
PREPARANDO == "PREPARANDO"
EJECUTANDO == "EJECUTANDO"
EN_PAUSA == "EN_PAUSA"
CANCELANDO == "CANCELANDO"
COMPLETADO == "COMPLETADO"
ERROR_BATCH == "ERROR"

EstadoBatch == {INACTIVO, PREPARANDO, EJECUTANDO, EN_PAUSA, CANCELANDO,
                COMPLETADO, ERROR_BATCH}

\* The totals passed to iniciar: the tests' 0 and -5, and 1..MaxTotal.
Totals == {0 - 5, 0} \cup (1..MaxTotal)

\* What a BatchStateMachine call reports: exc is "none" when it returned.
BReturned(op) == [op |-> op, exc |-> "none"]
BRaised(op, exc) == [op |-> op, exc |-> exc]
BNoRet == BReturned("none")

\* Mutant: the assertion never fires.
assert_estado_Off(esperado) == TRUE

\* _assert_estado: TRUE when it passes, FALSE when it raises RuntimeError.
assert_estado(esperado) == estado = esperado

\* Mutant: `total < 0`, so that 0 is accepted.
total_invalido_Strict(n) == n < 0

\* `if total <= 0: raise ValueError`.
total_invalido(n) == n <= 0

iniciar(n) ==
    IF ~assert_estado(INACTIVO)
    THEN /\ bret' = BRaised("iniciar", "RuntimeError")
         /\ UNCHANGED <<estado, imagen_actual, total, error>>
    ELSE IF total_invalido(n)
    THEN /\ bret' = BRaised("iniciar", "ValueError")
         /\ UNCHANGED <<estado, imagen_actual, total, error>>
    ELSE /\ total' = n
         /\ imagen_actual' = 0
         /\ estado' = PREPARANDO
         /\ bret' = BReturned("iniciar")
         /\ UNCHANGED error

preparado ==
    IF ~assert_estado(PREPARANDO)
    THEN /\ bret' = BRaised("preparado", "RuntimeError")
         /\ UNCHANGED <<estado, imagen_actual, total, error>>
    ELSE /\ estado' = EJECUTANDO
         /\ bret' = BReturned("preparado")
         /\ UNCHANGED <<imagen_actual, total, error>>

\* Mutant: `>` instead of `>=`: one tick too many is needed.
tick_completa_Late(actual, tot) == actual > tot

\* `if self.imagen_actual >= self.total`.
tick_completa(actual, tot) == actual >= tot

tick ==
    IF ~assert_estado(EJECUTANDO)
    THEN /\ bret' = BRaised("tick", "RuntimeError")
         /\ UNCHANGED <<estado, imagen_actual, total, error>>
    ELSE /\ imagen_actual' = imagen_actual + 1
         /\ estado' = IF tick_completa(imagen_actual + 1, total) THEN COMPLETADO
                      ELSE estado
         /\ bret' = BReturned("tick")
         /\ UNCHANGED <<total, error>>

pausar ==
    IF ~assert_estado(EJECUTANDO)
    THEN /\ bret' = BRaised("pausar", "RuntimeError")
         /\ UNCHANGED <<estado, imagen_actual, total, error>>
    ELSE /\ estado' = EN_PAUSA
         /\ bret' = BReturned("pausar")
         /\ UNCHANGED <<imagen_actual, total, error>>

reanudar ==
    IF ~assert_estado(EN_PAUSA)
    THEN /\ bret' = BRaised("reanudar", "RuntimeError")
         /\ UNCHANGED <<estado, imagen_actual, total, error>>
    ELSE /\ estado' = EJECUTANDO
         /\ bret' = BReturned("reanudar")
         /\ UNCHANGED <<imagen_actual, total, error>>

\* Mutant: one-phase cancel, straight to COMPLETADO.
cancelar_OnePhase ==
    /\ estado' = IF estado \in {EJECUTANDO, EN_PAUSA, PREPARANDO} THEN COMPLETADO
                 ELSE estado
    /\ bret' = BReturned("cancelar")
    /\ UNCHANGED <<imagen_actual, total, error>>

\* cancelar never raises: outside the three states it does nothing.
cancelar ==
    /\ estado' = IF estado \in {EJECUTANDO, EN_PAUSA, PREPARANDO} THEN CANCELANDO
                 ELSE estado
    /\ bret' = BReturned("cancelar")
    /\ UNCHANGED <<imagen_actual, total, error>>

cancelar_completado ==
    IF ~assert_estado(CANCELANDO)
    THEN /\ bret' = BRaised("cancelar_completado", "RuntimeError")
         /\ UNCHANGED <<estado, imagen_actual, total, error>>
    ELSE /\ estado' = COMPLETADO
         /\ bret' = BReturned("cancelar_completado")
         /\ UNCHANGED <<imagen_actual, total, error>>

error_fatal(mensaje) ==
    /\ estado' = ERROR_BATCH
    /\ error' = mensaje
    /\ bret' = BReturned("error_fatal")
    /\ UNCHANGED <<imagen_actual, total>>

\* reset that returns to INACTIVO but keeps the counters of the finished batch.
bsm_reset_KeepCounters ==
    IF estado \notin {COMPLETADO, ERROR_BATCH}
    THEN /\ bret' = BRaised("reset", "RuntimeError")
         /\ UNCHANGED <<estado, imagen_actual, total, error>>
    ELSE /\ estado' = INACTIVO
         /\ error' = None
         /\ bret' = BReturned("reset")
         /\ UNCHANGED <<imagen_actual, total>>

bsm_reset ==
    IF estado \notin {COMPLETADO, ERROR_BATCH}
    THEN /\ bret' = BRaised("reset", "RuntimeError")
         /\ UNCHANGED <<estado, imagen_actual, total, error>>
    ELSE /\ estado' = INACTIVO
         /\ imagen_actual' = 0
         /\ total' = 0
         /\ error' = None
         /\ bret' = BReturned("reset")

BSMInit ==
    /\ estado = INACTIVO
    /\ imagen_actual = 0
    /\ total = 0
    /\ error = None
    /\ bret = BNoRet

\* The tick-loop client is not running.
DrvInit ==
    /\ tpc = "off"
    /\ tn = 0
    /\ ticks = 0

\* No BatchEngine has been constructed.
EngInit ==
    /\ config = [batch_size |-> 0, max_retries |-> 0, best_of_n |-> 1,
                 enable_quality_filter |-> FALSE, save_rejected |-> FALSE,
                 input_folder |-> FALSE]
    /\ clip_threshold = 0
    /\ files = <<>>
    /\ stats = [accepted |-> 0, rejected |-> 0, retries |-> 0]
    /\ pause_event = TRUE
    /\ last_stop = None
    /\ rpc = "off"
    /\ loc = <<>>
    /\ comparator = <<>>
    /\ obs = <<>>
    /\ cpc = "off"

\* No FooocArteEngine, checkpoint, queue or pipeline call exists.
SysInit ==
    /\ fa = <<>>
    /\ interrupt = FALSE /\ gen = <<>>
    /\ savers = <<>>
    /\ fs = <<>>
    /\ rd = <<>>
    /\ cola = <<>>
    /\ qhist = <<>>
    /\ in_pipeline = <<>> /\ cli = <<>>

Init == GSMInit /\ BSMInit /\ DrvInit /\ EngInit /\ SysInit

Step(t) ==
    \/ \E md \in MetaArgs : start_generation(t, md)
    \/ mark_ready(t)
    \/ pause(t)
    \/ resume(t)
    \/ cancel(t)
    \/ \E md \in MetaArgs : complete(t, md)
    \/ \E msg \in Messages, md \in MetaArgs : error_set(t, msg, md)
    \/ error_transition(t)
    \/ reset_transition(t)
    \/ reset_clear(t)

\* Any number of threads call the machine.
Next == \E t \in Threads : Step(t)
Spec == Init /\ [][Next]_vars

\* One thread calls the machine; every call runs to its end before the next.
NextSeq == Step(MainThread)
SpecSeq == Init /\ [][NextSeq]_vars

\* One thread calls a machine that is new or has a long history behind it.
InitHist == (GSMInit \/ GSMInitWarm) /\ BSMInit /\ DrvInit /\ EngInit /\ SysInit
SpecHist == InitHist /\ [][NextSeq]_vars

\* A caller makes any BatchStateMachine call in any state.
call_iniciar(n) == iniciar(n) /\ UNCHANGED <<gsm_vars, drv_vars, eng_vars, sys_vars>>
call_preparado == preparado /\ UNCHANGED <<gsm_vars, drv_vars, eng_vars, sys_vars>>
call_tick == tick /\ UNCHANGED <<gsm_vars, drv_vars, eng_vars, sys_vars>>
call_pausar == pausar /\ UNCHANGED <<gsm_vars, drv_vars, eng_vars, sys_vars>>
call_reanudar == reanudar /\ UNCHANGED <<gsm_vars, drv_vars, eng_vars, sys_vars>>
call_cancelar == cancelar /\ UNCHANGED <<gsm_vars, drv_vars, eng_vars, sys_vars>>
call_cancelar_completado == cancelar_completado /\ UNCHANGED <<gsm_vars, drv_vars, eng_vars, sys_vars>>
call_error_fatal(m) == error_fatal(m) /\ UNCHANGED <<gsm_vars, drv_vars, eng_vars, sys_vars>>
call_reset == bsm_reset /\ UNCHANGED <<gsm_vars, drv_vars, eng_vars, sys_vars>>

NextBatch ==
    \/ \E n \in Totals : call_iniciar(n)
    \/ call_preparado
    \/ call_tick
    \/ call_pausar
    \/ call_reanudar
    \/ call_cancelar
    \/ call_cancelar_completado
    \/ \E m \in Messages : call_error_fatal(m)
    \/ call_reset
SpecBatch == Init /\ [][NextBatch]_vars

\* The tick-loop client: iniciar(tn), preparado(), then tick() tn times and
\* nothing else.
InitTicks ==
    /\ GSMInit
    /\ BSMInit
    /\ EngInit /\ SysInit
    /\ tpc = "new"
    /\ tn \in 1..MaxTotal
    /\ ticks = 0

loop_iniciar ==
    /\ tpc = "new"
    /\ iniciar(tn)
    /\ tpc' = "iniciado"
    /\ UNCHANGED <<tn, ticks, gsm_vars, eng_vars, sys_vars>>

loop_preparado ==
    /\ tpc = "iniciado"
    /\ preparado
    /\ tpc' = "ticking"
    /\ UNCHANGED <<tn, ticks, gsm_vars, eng_vars, sys_vars>>

loop_tick ==
    /\ tpc = "ticking"
    /\ ticks < tn
    /\ tick
    /\ ticks' = ticks + 1
    /\ UNCHANGED <<tpc, tn, gsm_vars, eng_vars, sys_vars>>

NextTicks == loop_iniciar \/ loop_preparado \/ loop_tick
SpecTicks == InitTicks /\ [][NextTicks]_vars

(***************************************************************************)
(* Claims about GlobalStateMachine                                         *)
(***************************************************************************)
\* The source states the contract lists for each public operation.
ListedSources(op) ==
    CASE op = "start_generation" -> {IDLE}
      [] op = "mark_ready"       -> {PREPARING}
      [] op = "pause"            -> {RUNNING}
      [] op = "resume"           -> {PAUSED}
      [] op = "cancel"           -> {RUNNING, PAUSED}
      [] op = "complete"         -> {RUNNING}
      [] op = "error"            -> {PREPARING, RUNNING}
      [] op \in {"reset", "reset_pending"} -> {CANCELLING, COMPLETED, ERROR}

\* The twelve edges of the documented transition table.
TwelveEdges ==
    {<<IDLE, PREPARING>>,
     <<PREPARING, RUNNING>>, <<PREPARING, ERROR>>,
     <<RUNNING, PAUSED>>, <<RUNNING, CANCELLING>>, <<RUNNING, COMPLETED>>,
     <<RUNNING, ERROR>>,
     <<PAUSED, RUNNING>>, <<PAUSED, CANCELLING>>,
     <<CANCELLING, IDLE>>, <<COMPLETED, IDLE>>, <<ERROR, IDLE>>}

\* C1: every public operation, called by any thread in any reachable state,
\* succeeds exactly when the machine is in one of the operation's listed source
\* states, and raises StateTransitionError from every other state.
C1_SucceedsOnlyFromSources ==
    \A t \in Threads :
        ret[t] # NoRet => (ret[t].ok <=> ret[t].from \in ListedSources(ret[t].op))

\* C2: whatever the threads call, every change of the lifecycle state is one of
\* the twelve edges of the transition table.
C2_OnlyTableEdges ==
    [][state' # state => <<state, state'>> \in TwelveEdges]_vars

\* C2 witness: four transitions were made by two threads and the machine is
\* back in IDLE.
C2_Witness ==
    /\ Len(state_history) = 4
    /\ state = IDLE
    /\ ret["t1"].ok /\ ret["t1"].op # "none"
    /\ ret["t2"].ok /\ ret["t2"].op # "none"

\* The step in which thread t's call of op reaches the validation in _transition.
Validates(t, op) ==
    CASE op = "start_generation" -> \E md \in MetaArgs : start_generation(t, md)
      [] op = "mark_ready"       -> mark_ready(t)
      [] op = "pause"            -> pause(t)
      [] op = "resume"           -> resume(t)
      [] op = "cancel"           -> cancel(t)
      [] op = "complete"         -> \E md \in MetaArgs : complete(t, md)
      [] op = "error"            -> error_transition(t)
      [] op = "reset"            -> reset_transition(t)

\* C3: a public call whose (current state, target) pair is not in the
\* transition table raises
\* StateTransitionError, and no step of it changes the state, the metadata or
\* the transition history.
C3_RefusedCallKeepsState ==
    [][\A t \in Threads :
          /\ \A op \in Ops :
                (<<state, Target(op)>> \notin TwelveEdges /\ Validates(t, op))
                    => /\ ret'[t] = Raised(op, state)
                       /\ UNCHANGED <<state, metadata, state_history>>
          /\ (pc'[t] = "error" /\ \E msg \in Messages, md \in MetaArgs :
                                        error_set(t, msg, md))
                    => UNCHANGED <<state, metadata, state_history>>
      ]_vars

\* C3 witness: with metadata attached and two transitions recorded, a call with
\* metadata was refused.
C3_Witness ==
    /\ ret["t1"] = Raised("start_generation", RUNNING)
    /\ DOMAIN metadata # {}
    /\ Len(state_history) = 2

\* C4: error(message, metadata) called by a single caller in a state other than
\* PREPARING or RUNNING (where it raises) leaves the stored error message as it
\* was.
C4_RefusedErrorKeepsMessage ==
    [][(/\ state \notin {PREPARING, RUNNING}
        /\ \E msg \in Messages, md \in MetaArgs : error_set(MainThread, msg, md))
          => error_message' = error_message]_vars

Min(a, b) == IF a < b THEN a ELSE b

\* C5: the current state is the target of the last recorded transition; the
\* history holds the most recent transitions, consecutive and in the order they
\* were made; its length never exceeds 100, the oldest record being dropped.
C5_HistoryFollowsState ==
    LET h == state_history
        n == Len(state_history)
    IN  /\ n <= 100
        /\ n = Min(transition_timestamp, 100)
        /\ n > 0 => /\ h[n].to = state
                    /\ h[n].timestamp = transition_timestamp
        /\ \A i \in 1..(n - 1) :
              /\ h[i].to = h[i + 1].from
              /\ h[i + 1].timestamp = h[i].timestamp + 1

\* C5 witness: more than 100 transitions were made, the history is full and
\* its oldest records are gone.
C5_Witness ==
    /\ transition_timestamp > 100
    /\ Len(state_history) = 100
    /\ state_history[1].timestamp = transition_timestamp - 99
    /\ ret[MainThread].ok /\ ret[MainThread].op # "none"

\* C6: when a single caller's reset() has returned, the metadata is empty, and
\* if the reset left ERROR the stored error message is None.
C6_ResetClears ==
    \A t \in Threads :
        (pc[t] = "idle" /\ ret[t].op = "reset" /\ ret[t].ok)
            => /\ state = IDLE
               /\ metadata = <<>>
               /\ (ret[t].from = ERROR => error_message = None)

\* C6 witness: a reset has returned after leaving ERROR, in a run whose earlier
\* calls attached metadata.
C6_Witness ==
    /\ pc[MainThread] = "idle"
    /\ ret[MainThread] = Returned("reset", ERROR)
    /\ \E i \in 1..Len(state_history) : DOMAIN state_history[i].metadata # {}

(***************************************************************************)
(* Claims about BatchStateMachine                                          *)
(***************************************************************************)
\* C7: after iniciar(total) and preparado(), with tick() the only call made,
\* imagen_actual equals the number of ticks made, the tracker is EJECUTANDO
\* after each of the first total-1 ticks and COMPLETADO after the last.
C7_TicksToCompletion ==
    tpc = "ticking" =>
        /\ bret.exc = "none"
        /\ total = tn
        /\ imagen_actual = ticks
        /\ estado = (IF ticks < tn THEN EJECUTANDO ELSE COMPLETADO)

\* C7 witness: the last of at least three ticks has completed the batch.
C7_Witness ==
    /\ tpc = "ticking"
    /\ tn >= 3
    /\ ticks = tn
    /\ estado = COMPLETADO

\* C8: iniciar(total) fails when total <= 0 or the tracker is not INACTIVO,
\* leaving estado, imagen_actual and total unchanged; otherwise it succeeds and
\* the tracker is PREPARANDO with total stored and imagen_actual = 0.
C8_Iniciar ==
    [][\A n \in Totals :
          iniciar(n) =>
              IF n <= 0 \/ estado # INACTIVO
              THEN /\ bret'.exc # "none"
                   /\ UNCHANGED <<estado, imagen_actual, total>>
              ELSE /\ bret'.exc = "none"
                   /\ estado' = PREPARANDO
                   /\ total' = n
                   /\ imagen_actual' = 0
      ]_vars

\* C8 witness: iniciar was refused on a paused tracker that had made progress.
C8_Witness ==
    /\ bret = BRaised("iniciar", "RuntimeError")
    /\ estado = EN_PAUSA
    /\ imagen_actual > 0

\* The state each asserting method requires.
RequiredEstado(op) ==
    CASE op = "tick"                -> EJECUTANDO
      [] op = "pausar"              -> EJECUTANDO
      [] op = "reanudar"            -> EN_PAUSA
      [] op = "preparado"           -> PREPARANDO
      [] op = "cancelar_completado" -> CANCELANDO

BatchCall(op) ==
    CASE op = "tick"                -> tick
      [] op = "pausar"              -> pausar
      [] op = "reanudar"            -> reanudar
      [] op = "preparado"           -> preparado
      [] op = "cancelar_completado" -> cancelar_completado

\* C9: tick, pausar, reanudar, preparado and cancelar_completado fail unless the
\* tracker is in the state each requires, and a failing call leaves estado,
\* imagen_actual, total and error unchanged.
C9_AssertedCalls ==
    [][\A op \in {"tick", "pausar", "reanudar", "preparado", "cancelar_completado"} :
          BatchCall(op) =>
              IF estado # RequiredEstado(op)
              THEN /\ bret' = BRaised(op, "RuntimeError")
                   /\ UNCHANGED <<estado, imagen_actual, total, error>>
              ELSE bret' = BReturned(op)
      ]_vars

\* C9 witness: tick was refused on a tracker in ERROR that keeps its counters
\* and its error.
C9_Witness ==
    /\ bret = BRaised("tick", "RuntimeError")
    /\ estado = ERROR_BATCH
    /\ error # None
    /\ imagen_actual > 0
    /\ imagen_actual < total

\* C10: cancelar moves the tracker to CANCELANDO from PREPARANDO, EJECUTANDO or
\* EN_PAUSA and never to COMPLETADO; from CANCELANDO the tracker reaches
\* COMPLETADO only by cancelar_completado, which succeeds only from CANCELANDO;
\* neither call changes imagen_actual.
C10_TwoPhaseCancel ==
    [][/\ cancelar =>
            /\ estado \in {PREPARANDO, EJECUTANDO, EN_PAUSA} => estado' = CANCELANDO
            /\ estado' # estado => estado' = CANCELANDO
            /\ imagen_actual' = imagen_actual
       /\ (estado = CANCELANDO /\ estado' = COMPLETADO) => cancelar_completado
       /\ cancelar_completado =>
            /\ (bret'.exc = "none") <=> (estado = CANCELANDO)
            /\ estado' = COMPLETADO => estado \in {CANCELANDO, COMPLETADO}
            /\ imagen_actual' = imagen_actual
      ]_vars

\* C10 witness: a batch cancelled part-way has been finalised by
\* cancelar_completado.
C10_Witness ==
    /\ bret = BReturned("cancelar_completado")
    /\ estado = COMPLETADO
    /\ imagen_actual > 0
    /\ imagen_actual < total

(***************************************************************************)
(* Part 3: BatchEngine                                                     *)
(*                                                                         *)
(* One thread executes BatchEngine.run; other threads call pause() and     *)
(* resume() and set the task's cancellation signal.  The engine takes no   *)
(* lock.  A step of the run thread is a stretch of code holding at most    *)
(* one access to what the threads share: a BatchStateMachine call (its     *)
(* assertion and its assignments, two adjacent statements, are taken       *)
(* together), the pause event, the cancellation signal.  The pipeline      *)
(* (process_tasks),                                                        *)
(* the quality scorer and the save callback are external: their outcomes   *)
(* are chosen nondeterministically.  A save callback is configured.        *)
(***************************************************************************)
\* Largest batch_size of a modelled run.
MaxBatch == 2
\* Largest max_retries of a modelled run.
MaxRetries == 2
\* Largest best_of_n of a modelled run.
MaxBestOf == 3
\* Largest number of input files in folder mode.
MaxFiles == 2
\* Scores are integers counting steps of 1/ScoreScale: the scorer's cosine
\* similarity ranges over -1.0 .. 1.0, that is -ScoreScale .. ScoreScale.
ScoreScale == 2

Scores == (0 - ScoreScale)..ScoreScale
\* Optional values are sequences of length at most one (<<>> is Python's None).
Some(x) == <<x>>
Nothing == <<>>
NoImage == 0

eng_cfg == <<config, clip_threshold, files>>

Configs ==
    [batch_size : 0..MaxBatch, max_retries : 0..MaxRetries,
     best_of_n : 1..MaxBestOf, enable_quality_filter : BOOLEAN,
     save_rejected : BOOLEAN, input_folder : BOOLEAN]

BatchStats == [accepted |-> 0, rejected |-> 0, retries |-> 0]

\* The locals of run, _run_folder_mode and _run_single.
RunLocals ==
    [i |-> 0, f_idx |-> 0, attempt_n |-> 0, attempt |-> 0, save_output |-> TRUE,
     final_score |-> Nothing, result |-> Nothing, retval |-> Nothing,
     success |-> FALSE, caller |-> "halt"]

NoObs ==
    [invocations |-> 0, cleanups |-> 0, saved |-> <<>>, emitted |-> {},
     candidates |-> <<>>]

\* self.clip_filter is created by run when the quality filter is enabled.
clip_filter == config.enable_quality_filter

\* What process_tasks can hand back for the candidate being generated.
Results ==
    {[image |-> loc.attempt_n + 1, tech_ok |-> FALSE, score |-> 0]} \cup
    {[image |-> loc.attempt_n + 1, tech_ok |-> TRUE, score |-> s] : s \in Scores}

\* The frame of a fresh _run_single(index, save_output) call.
call_run_single(l, save_output, caller) ==
    [l EXCEPT !.attempt = 0, !.final_score = Nothing, !.result = Nothing,
              !.retval = Nothing, !.save_output = save_output, !.caller = caller]

\* while attempt <= max_retries: process_tasks is invoked once and returns a
\* result or raises.
run_single_process_tasks ==
    /\ rpc = "rs_try"
    /\ loc.attempt <= config.max_retries
    /\ obs' = [obs EXCEPT !.invocations = @ + 1]
    /\ \/ /\ rpc' = "rs_except"
          /\ UNCHANGED loc
       \/ \E r \in Results :
            /\ loc' = [loc EXCEPT !.result = Some(r)]
            /\ rpc' = "rs_gate"
    /\ UNCHANGED <<sys_vars, gsm_vars, bsm_vars, drv_vars, eng_cfg, stats, pause_event,
                   last_stop, comparator, cpc>>

gate_rejects_Inclusive(r) ==
    /\ config.enable_quality_filter
    /\ \/ ~r.tech_ok
       \/ clip_filter /\ r.score <= clip_threshold

\* The technical filter, then the CLIP score against the threshold.
gate_rejects(r) ==
    /\ config.enable_quality_filter
    /\ \/ ~r.tech_ok
       \/ clip_filter /\ r.score < clip_threshold

run_single_quality_gate ==
    /\ rpc = "rs_gate"
    /\ LET r == loc.result[1] IN
         /\ loc' = [loc EXCEPT !.final_score =
                       IF config.enable_quality_filter /\ r.tech_ok /\ clip_filter
                       THEN Some(r.score) ELSE @]
         /\ rpc' = IF gate_rejects(r) THEN "rs_except" ELSE "rs_save"
    /\ UNCHANGED <<sys_vars, gsm_vars, bsm_vars, drv_vars, eng_cfg, stats, pause_event,
                   last_stop, comparator, obs, cpc>>

\* An accepted result: saved when save_output (the callback may raise, which
\* lands in the except clause), then returned.
run_single_accept ==
    /\ rpc = "rs_save"
    /\ LET r == loc.result[1] IN
         IF loc.save_output
         THEN /\ obs' = [obs EXCEPT !.saved =
                            Append(@, [image |-> r.image, rejected |-> FALSE])]
              /\ \/ /\ rpc' = "rs_except"
                    /\ UNCHANGED loc
                 \/ /\ rpc' = "rs_finally"
                    /\ loc' = [loc EXCEPT !.retval =
                          Some([ok |-> TRUE, image |-> r.image, score |-> loc.final_score])]
         ELSE /\ rpc' = "rs_finally"
              /\ loc' = [loc EXCEPT !.retval =
                    Some([ok |-> TRUE, image |-> r.image, score |-> loc.final_score])]
              /\ UNCHANGED obs
    /\ UNCHANGED <<sys_vars, gsm_vars, bsm_vars, drv_vars, eng_cfg, stats, pause_event,
                   last_stop, comparator, cpc>>

retries_exhausted_OneShort(attempt) == attempt >= config.max_retries

retries_exhausted(attempt) == attempt > config.max_retries

\* except Exception: one more attempt is counted; once attempt exceeds
\* max_retries the item is rejected, and its last result, if there is one, is
\* saved as rejected when save_output and save_rejected (an unbound result
\* raises inside the inner try, which is swallowed).
run_single_except ==
    /\ rpc = "rs_except"
    /\ stats' = [stats EXCEPT !.retries = @ + 1]
    /\ rpc' = "rs_finally"
    /\ IF retries_exhausted(loc.attempt + 1)
       THEN /\ loc' = [loc EXCEPT !.attempt = @ + 1,
                         !.retval = Some([ok |-> FALSE, image |-> NoImage,
                                          score |-> Nothing])]
            /\ obs' = IF loc.save_output /\ config.save_rejected /\ loc.result # Nothing
                      THEN [obs EXCEPT !.saved =
                               Append(@, [image |-> loc.result[1].image,
                                          rejected |-> TRUE])]
                      ELSE obs
       ELSE /\ loc' = [loc EXCEPT !.attempt = @ + 1]
            /\ UNCHANGED obs
    /\ UNCHANGED <<sys_vars, gsm_vars, bsm_vars, drv_vars, eng_cfg, pause_event,
                   last_stop, comparator, cpc>>

cleanup_count_Skip(n) == n

cleanup_count(n) == n + 1

\* finally: free_cuda_memory(), then the pending return or the next attempt.
run_single_finally ==
    /\ rpc = "rs_finally"
    /\ obs' = [obs EXCEPT !.cleanups = cleanup_count(@)]
    /\ rpc' = IF loc.retval # Nothing THEN loc.caller ELSE "rs_try"
    /\ UNCHANGED <<sys_vars, gsm_vars, bsm_vars, drv_vars, eng_cfg, stats, pause_event,
                   last_stop, loc, comparator, cpc>>

run_single ==
    \/ run_single_process_tasks
    \/ run_single_quality_gate
    \/ run_single_accept
    \/ run_single_except
    \/ run_single_finally

\* A _run_single call on its own: any configuration, either value of
\* save_output, no result yet.
InitSingle ==
    /\ GSMInit /\ BSMInit /\ DrvInit /\ SysInit
    /\ config \in {c \in Configs : c.batch_size = 1 /\ c.best_of_n = 1 /\ ~c.input_folder}
    /\ clip_threshold \in Scores
    /\ files = <<>>
    /\ stats = BatchStats
    /\ pause_event = TRUE
    /\ last_stop = None
    /\ rpc = "rs_try"
    /\ loc \in {call_run_single(RunLocals, s, "halt") : s \in BOOLEAN}
    /\ comparator = <<>>
    /\ obs = NoObs
    /\ cpc = "off"

SpecSingle == InitSingle /\ [][run_single]_vars

\* BatchComparator(): best_score = -1, best_image = None.
BatchComparator == [best_score |-> 0 - ScoreScale, best_image |-> NoImage]

\* BatchComparator.consider: a strictly greater score replaces the best so far.
consider(c, image, score) ==
    IF score > c.best_score
    THEN [best_score |-> score, best_image |-> image]
    ELSE c

count_item_Both(success) ==
    [stats EXCEPT !.accepted = @ + 1, !.rejected = @ + 1]

\* if success: accepted += 1 else: rejected += 1
count_item(success) ==
    IF success
    THEN [stats EXCEPT !.accepted = @ + 1]
    ELSE [stats EXCEPT !.rejected = @ + 1]

\* An item starts: the progress event, then the best-of-N branch or the single
\* _run_single(i, save_output=True) call.
run_item ==
    /\ rpc = "item"
    /\ obs' = [obs EXCEPT !.emitted = @ \cup {"Generando imagen"},
                          !.invocations = 0, !.cleanups = 0,
                          !.saved = <<>>, !.candidates = <<>>]
    /\ IF config.best_of_n > 1
       THEN /\ comparator' = BatchComparator
            /\ loc' = [loc EXCEPT !.attempt_n = 0, !.success = FALSE]
            /\ rpc' = "bo_loop"
       ELSE /\ loc' = call_run_single([loc EXCEPT !.attempt_n = 0], TRUE, "single_ret")
            /\ rpc' = "rs_try"
            /\ UNCHANGED comparator
    /\ UNCHANGED <<sys_vars, gsm_vars, bsm_vars, drv_vars, eng_cfg, stats, pause_event,
                   last_stop, cpc>>

\* for attempt_n in range(best_of_n): _run_single(i, save_output=False)
bestof_candidate ==
    /\ rpc = "bo_loop"
    /\ IF loc.attempt_n < config.best_of_n
       THEN /\ loc' = call_run_single(loc, FALSE, "bo_consider")
            /\ obs' = [obs EXCEPT !.invocations = 0, !.cleanups = 0]
            /\ rpc' = "rs_try"
       ELSE /\ rpc' = "bo_commit"
            /\ UNCHANGED <<loc, obs>>
    /\ UNCHANGED <<sys_vars, gsm_vars, bsm_vars, drv_vars, eng_cfg, stats, pause_event,
                   last_stop, comparator, cpc>>

\* if success and img: comparator.consider(img, score or 0.0, meta)
bestof_consider ==
    /\ rpc = "bo_consider"
    /\ LET r == loc.retval[1]
           final_score == IF r.score # Nothing THEN r.score[1] ELSE 0
       IN  /\ comparator' = IF r.ok /\ r.image # NoImage
                            THEN consider(comparator, r.image, final_score)
                            ELSE comparator
           /\ obs' = IF r.ok
                     THEN [obs EXCEPT !.candidates =
                              Append(@, [image |-> r.image, score |-> final_score])]
                     ELSE obs
    /\ loc' = [loc EXCEPT !.attempt_n = @ + 1, !.retval = Nothing]
    /\ rpc' = "bo_loop"
    /\ UNCHANGED <<sys_vars, gsm_vars, bsm_vars, drv_vars, eng_cfg, stats, pause_event,
                   last_stop, cpc>>

\* comparator.result(): the winner, when there is one, is handed to the save
\* callback; the item succeeded unless there is no winner or the save raised.
bestof_commit ==
    /\ rpc = "bo_commit"
    /\ IF comparator.best_image # NoImage
       THEN /\ obs' = [obs EXCEPT !.saved =
                          Append(@, [image |-> comparator.best_image,
                                     rejected |-> FALSE])]
            /\ \E saved_ok \in BOOLEAN : loc' = [loc EXCEPT !.success = saved_ok]
       ELSE /\ loc' = [loc EXCEPT !.success = FALSE]
            /\ UNCHANGED obs
    /\ rpc' = "count"
    /\ UNCHANGED <<sys_vars, gsm_vars, bsm_vars, drv_vars, eng_cfg, stats, pause_event,
                   last_stop, comparator, cpc>>

\* One item of a running batch in best-of-N mode.
InitBestOf ==
    /\ GSMInit /\ DrvInit /\ SysInit
    /\ config \in {c \in Configs : /\ c.batch_size = 1 /\ c.best_of_n > 1
                                   /\ c.max_retries <= 1 /\ ~c.input_folder
                                   /\ ~c.save_rejected}
    /\ clip_threshold \in Scores
    /\ estado = EJECUTANDO /\ imagen_actual = 0 /\ total = config.batch_size
    /\ error = None /\ bret = BReturned("preparado")
    /\ files = <<>>
    /\ stats = BatchStats
    /\ pause_event = TRUE
    /\ last_stop = None
    /\ rpc = "item"
    /\ loc = RunLocals
    /\ comparator = <<>>
    /\ obs = NoObs
    /\ cpc = "off"

NextBestOf ==
    \/ run_item
    \/ bestof_candidate
    \/ bestof_consider
    \/ bestof_commit
    \/ run_single

SpecBestOf == InitBestOf /\ [][NextBestOf]_vars

emit(message) == [obs EXCEPT !.emitted = @ \cup {message}]

\* run(): sm.iniciar(batch_size); a refusal is logged and run returns.  The
\* values a preset puts into max_retries and clip_threshold are part of the
\* configuration the run starts with.
run_iniciar ==
    /\ rpc = "run"
    /\ iniciar(config.batch_size)
    /\ IF bret'.exc = "none"
       THEN /\ obs' = emit("Iniciando lote...")
            /\ rpc' = IF config.input_folder THEN "folder" ELSE "preparado"
       ELSE /\ rpc' = "returned"
            /\ UNCHANGED obs
    /\ UNCHANGED <<sys_vars, gsm_vars, drv_vars, eng_cfg, stats, pause_event, last_stop,
                   loc, comparator, cpc>>

\* try: sm.preparado() except: pass; then the loop starts with i = 0.
run_preparado ==
    /\ rpc = "preparado"
    /\ preparado
    /\ loc' = [loc EXCEPT !.i = 0]
    /\ rpc' = "loop"
    /\ UNCHANGED <<sys_vars, gsm_vars, drv_vars, eng_cfg, stats, pause_event, last_stop,
                   comparator, obs, cpc>>

\* A loop head that does not look at the cancellation signal.
run_poll_cancel_Deaf ==
    /\ rpc = "loop"
    /\ rpc' = IF loc.i >= config.batch_size THEN "final" ELSE "pause_poll"
    /\ UNCHANGED <<sys_vars, gsm_vars, bsm_vars, drv_vars, eng_cfg, stats, pause_event,
                   last_stop, loc, comparator, obs, cpc>>

\* for i in range(batch_size): the cancellation signal is read first.
run_poll_cancel ==
    /\ rpc = "loop"
    /\ rpc' = IF loc.i >= config.batch_size THEN "final"
              ELSE IF last_stop # None THEN "cancelar"
              ELSE "pause_poll"
    /\ UNCHANGED <<sys_vars, gsm_vars, bsm_vars, drv_vars, eng_cfg, stats, pause_event,
                   last_stop, loc, comparator, obs, cpc>>

\* sm.cancelar(); emit("Lote cancelado.")
run_cancelar ==
    /\ rpc = "cancelar"
    /\ cancelar
    /\ obs' = emit("Lote cancelado.")
    /\ rpc' = "cancel_fin"
    /\ UNCHANGED <<sys_vars, gsm_vars, drv_vars, eng_cfg, stats, pause_event, last_stop,
                   loc, comparator, cpc>>

\* if sm.estado == CANCELANDO: sm.cancelar_completado(); break
run_cancel_fin ==
    /\ rpc = "cancel_fin"
    /\ IF estado = CANCELANDO THEN cancelar_completado ELSE UNCHANGED bsm_vars
    /\ rpc' = "final"
    /\ UNCHANGED <<sys_vars, gsm_vars, drv_vars, eng_cfg, stats, pause_event, last_stop,
                   loc, comparator, obs, cpc>>

\* if not pause_event.is_set(): ...
run_poll_pause ==
    /\ rpc = "pause_poll"
    /\ rpc' = IF pause_event THEN "item" ELSE "pausar"
    /\ UNCHANGED <<sys_vars, gsm_vars, bsm_vars, drv_vars, eng_cfg, stats, pause_event,
                   last_stop, loc, comparator, obs, cpc>>

\* sm.pausar(), outside any try: a refusal ends run with the exception.
run_pausar ==
    /\ rpc = "pausar"
    /\ pausar
    /\ IF bret'.exc = "none"
       THEN /\ obs' = emit("Lote pausado (esperando)...")
            /\ rpc' = "wait"
       ELSE /\ rpc' = "crashed"
            /\ UNCHANGED obs
    /\ UNCHANGED <<sys_vars, gsm_vars, drv_vars, eng_cfg, stats, pause_event, last_stop,
                   loc, comparator, cpc>>

\* pause_event.wait() returns once the event is set.
run_wait ==
    /\ rpc = "wait"
    /\ pause_event
    /\ rpc' = "reanudar"
    /\ UNCHANGED <<sys_vars, gsm_vars, bsm_vars, drv_vars, eng_cfg, stats, pause_event,
                   last_stop, loc, comparator, obs, cpc>>

\* sm.reanudar(), outside any try.
run_reanudar ==
    /\ rpc = "reanudar"
    /\ reanudar
    /\ rpc' = IF bret'.exc = "none" THEN "recheck" ELSE "crashed"
    /\ UNCHANGED <<sys_vars, gsm_vars, drv_vars, eng_cfg, stats, pause_event, last_stop,
                   loc, comparator, obs, cpc>>

\* The cancellation signal is read again after waking up.
run_recheck ==
    /\ rpc = "recheck"
    /\ rpc' = IF last_stop # None THEN "cancelar2" ELSE "item"
    /\ UNCHANGED <<sys_vars, gsm_vars, bsm_vars, drv_vars, eng_cfg, stats, pause_event,
                   last_stop, loc, comparator, obs, cpc>>

\* sm.cancelar() after waking up (no event is emitted on this path).
run_cancelar2 ==
    /\ rpc = "cancelar2"
    /\ cancelar
    /\ rpc' = "cancel_fin"
    /\ UNCHANGED <<sys_vars, gsm_vars, drv_vars, eng_cfg, stats, pause_event, last_stop,
                   loc, comparator, obs, cpc>>

\* success, _, _, score = self._run_single(i, save_output=True)
run_single_ret ==
    /\ rpc = "single_ret"
    /\ loc' = [loc EXCEPT !.success = loc.retval[1].ok, !.retval = Nothing]
    /\ rpc' = "count"
    /\ UNCHANGED <<sys_vars, gsm_vars, bsm_vars, drv_vars, eng_cfg, stats, pause_event,
                   last_stop, comparator, obs, cpc>>

\* The item is counted as accepted or rejected.
run_count ==
    /\ rpc = "count"
    /\ stats' = count_item(loc.success)
    /\ rpc' = "tick"
    /\ UNCHANGED <<sys_vars, gsm_vars, bsm_vars, drv_vars, eng_cfg, pause_event,
                   last_stop, loc, comparator, obs, cpc>>

\* sm.tick(), outside any try; then the progress event and the checkpoint.
run_tick ==
    /\ rpc = "tick"
    /\ tick
    /\ IF bret'.exc = "none"
       THEN /\ obs' = emit("Finished image")
            /\ loc' = [loc EXCEPT !.i = @ + 1]
            /\ rpc' = "loop"
       ELSE /\ rpc' = "crashed"
            /\ UNCHANGED <<obs, loc>>
    /\ UNCHANGED <<sys_vars, gsm_vars, drv_vars, eng_cfg, stats, pause_event, last_stop,
                   comparator, cpc>>

\* After the loop: the completion event when the tracker is COMPLETADO, and
\* the final report.
run_final ==
    /\ rpc = "final"
    /\ obs' = IF estado = COMPLETADO THEN emit("Lote completado.") ELSE obs
    /\ rpc' = "returned"
    /\ UNCHANGED <<sys_vars, gsm_vars, bsm_vars, drv_vars, eng_cfg, stats, pause_event,
                   last_stop, loc, comparator, cpc>>

folder_total_PerFile(n_files) == n_files

\* self.sm.total = total_images * self.config.batch_size
folder_total(n_files) == n_files * config.batch_size

\* _run_folder_mode: without input files it returns; otherwise it sets the
\* tracker's total to files * batch_size itself.
folder_begin ==
    /\ rpc = "folder"
    /\ IF files = <<>>
       THEN /\ obs' = emit("No images found in folder.")
            /\ rpc' = "returned"
            /\ UNCHANGED <<total, loc>>
       ELSE /\ total' = folder_total(Len(files))
            /\ loc' = [loc EXCEPT !.f_idx = 0]
            /\ rpc' = "file"
            /\ UNCHANGED obs
    /\ UNCHANGED <<sys_vars, gsm_vars, estado, imagen_actual, error, bret, drv_vars,
                   eng_cfg, stats, pause_event, last_stop, comparator, cpc>>

\* for f_idx, file_path in enumerate(files): the cancellation signal breaks the
\* loop; a file that cannot be loaded is skipped.
folder_file ==
    /\ rpc = "file"
    /\ IF loc.f_idx >= Len(files) \/ last_stop # None
       THEN /\ rpc' = "report"
            /\ UNCHANGED loc
       ELSE IF ~files[loc.f_idx + 1]
       THEN /\ loc' = [loc EXCEPT !.f_idx = @ + 1]
            /\ rpc' = "file"
       ELSE /\ loc' = [loc EXCEPT !.i = 0]
            /\ rpc' = "inner"
    /\ UNCHANGED <<sys_vars, gsm_vars, bsm_vars, drv_vars, eng_cfg, stats, pause_event,
                   last_stop, comparator, obs, cpc>>

\* for i in range(batch_size): the tracker's imagen_actual is assigned
\* directly, then _run_single(imagen_actual, save_output=True).
folder_item ==
    /\ rpc = "inner"
    /\ IF loc.i >= config.batch_size
       THEN /\ loc' = [loc EXCEPT !.f_idx = @ + 1]
            /\ rpc' = "file"
            /\ UNCHANGED <<imagen_actual, obs>>
       ELSE /\ imagen_actual' = (loc.f_idx * config.batch_size) + loc.i + 1
            /\ obs' = [obs EXCEPT !.emitted = @ \cup {"Processing"},
                                  !.invocations = 0, !.cleanups = 0,
                                  !.saved = <<>>, !.candidates = <<>>]
            /\ loc' = call_run_single([loc EXCEPT !.attempt_n = 0], TRUE, "fcount")
            /\ rpc' = "rs_try"
    /\ UNCHANGED <<sys_vars, gsm_vars, estado, total, error, bret, drv_vars, eng_cfg,
                   stats, pause_event, last_stop, comparator, cpc>>

\* The item is counted and the checkpoint written.
folder_count ==
    /\ rpc = "fcount"
    /\ stats' = count_item(loc.retval[1].ok)
    /\ loc' = [loc EXCEPT !.success = loc.retval[1].ok, !.retval = Nothing,
                          !.i = @ + 1]
    /\ rpc' = "inner"
    /\ UNCHANGED <<sys_vars, gsm_vars, bsm_vars, drv_vars, eng_cfg, pause_event,
                   last_stop, comparator, obs, cpc>>

\* self._final_report()
folder_report ==
    /\ rpc = "report"
    /\ rpc' = "returned"
    /\ UNCHANGED <<sys_vars, gsm_vars, bsm_vars, drv_vars, eng_cfg, stats, pause_event,
                   last_stop, loc, comparator, obs, cpc>>

\* Another thread sets task.last_stop.
set_last_stop ==
    /\ last_stop = None
    /\ last_stop' = "stop"
    /\ UNCHANGED <<sys_vars, gsm_vars, bsm_vars, drv_vars, eng_cfg, stats, pause_event,
                   rpc, loc, comparator, obs, cpc>>

\* BatchEngine.pause(): sm.pausar(); a refusal is logged and nothing else
\* happens.
engine_pause_pausar ==
    /\ cpc = "idle"
    /\ pausar
    /\ cpc' = IF bret'.exc = "none" THEN "pause_clear" ELSE "idle"
    /\ UNCHANGED <<sys_vars, gsm_vars, drv_vars, eng_cfg, stats, pause_event, last_stop,
                   rpc, loc, comparator, obs>>

\* BatchEngine.pause(): pause_event.clear(); emit("Lote pausado.")
engine_pause_clear ==
    /\ cpc = "pause_clear"
    /\ pause_event' = FALSE
    /\ obs' = emit("Lote pausado.")
    /\ cpc' = "idle"
    /\ UNCHANGED <<sys_vars, gsm_vars, bsm_vars, drv_vars, eng_cfg, stats, last_stop,
                   rpc, loc, comparator>>

\* BatchEngine.resume(): sm.reanudar(); a refusal is logged and nothing else
\* happens.
engine_resume_reanudar ==
    /\ cpc = "idle"
    /\ reanudar
    /\ cpc' = IF bret'.exc = "none" THEN "resume_set" ELSE "idle"
    /\ UNCHANGED <<sys_vars, gsm_vars, drv_vars, eng_cfg, stats, pause_event, last_stop,
                   rpc, loc, comparator, obs>>

\* BatchEngine.resume(): pause_event.set(); emit("Lote reanudado.")
engine_resume_set ==
    /\ cpc = "resume_set"
    /\ pause_event' = TRUE
    /\ obs' = emit("Lote reanudado.")
    /\ cpc' = "idle"
    /\ UNCHANGED <<sys_vars, gsm_vars, bsm_vars, drv_vars, eng_cfg, stats, last_stop,
                   rpc, loc, comparator>>

\* A freshly constructed engine whose run is about to be called.
InitEngine(cfgs) ==
    /\ GSMInit /\ BSMInit /\ DrvInit /\ SysInit
    /\ config \in cfgs
    /\ clip_threshold = 0
    /\ files \in IF config.input_folder
                 THEN UNION {[1..n -> BOOLEAN] : n \in 0..MaxFiles}
                 ELSE {<<>>}
    /\ stats = BatchStats
    /\ pause_event = TRUE
    /\ last_stop = None
    /\ rpc = "run"
    /\ loc = RunLocals
    /\ comparator = <<>>
    /\ obs = NoObs
    /\ cpc = "idle"

\* Standard and folder mode; the cancellation signal may be set at any time;
\* nobody calls pause() or resume().
InitRun ==
    InitEngine({c \in Configs : c.max_retries <= 1 /\ c.best_of_n <= 2
                                /\ ~c.save_rejected})

NextRun ==
    \/ run_iniciar
    \/ run_preparado
    \/ run_poll_cancel
    \/ run_cancelar
    \/ run_cancel_fin
    \/ run_poll_pause
    \/ run_item
    \/ bestof_candidate
    \/ bestof_consider
    \/ bestof_commit
    \/ run_single
    \/ run_single_ret
    \/ run_count
    \/ run_tick
    \/ run_final
    \/ folder_begin
    \/ folder_file
    \/ folder_item
    \/ folder_count
    \/ folder_report
    \/ set_last_stop

SpecRun == InitRun /\ [][NextRun]_vars

\* Standard mode without best-of-N, with another thread calling pause() and
\* resume() and setting the cancellation signal at any time.
InitPause ==
    InitEngine({c \in Configs : /\ c.max_retries = 0 /\ c.best_of_n = 1
                                /\ ~c.save_rejected /\ ~c.input_folder
                                /\ ~c.enable_quality_filter})

NextPause ==
    \/ run_iniciar
    \/ run_preparado
    \/ run_poll_cancel
    \/ run_cancelar
    \/ run_cancel_fin
    \/ run_poll_pause
    \/ run_pausar
    \/ run_wait
    \/ run_reanudar
    \/ run_recheck
    \/ run_cancelar2
    \/ run_item
    \/ run_single
    \/ run_single_ret
    \/ run_count
    \/ run_tick
    \/ run_final
    \/ set_last_stop
    \/ engine_pause_pausar
    \/ engine_pause_clear
    \/ engine_resume_reanudar
    \/ engine_resume_set

SpecPause == InitPause /\ [][NextPause]_vars

\* Standard mode with nobody pausing or cancelling; the run thread keeps
\* running until run returns.
InitPlain ==
    InitEngine({c \in Configs : /\ c.max_retries <= 1 /\ c.best_of_n <= 2
                                /\ ~c.save_rejected /\ ~c.input_folder})

NextPlain ==
    \/ run_iniciar
    \/ run_preparado
    \/ run_poll_cancel
    \/ run_poll_pause
    \/ run_item
    \/ bestof_candidate
    \/ bestof_consider
    \/ bestof_commit
    \/ run_single
    \/ run_single_ret
    \/ run_count
    \/ run_tick
    \/ run_final

SpecPlain == InitPlain /\ [][NextPlain]_vars /\ WF_vars(NextPlain)

(***************************************************************************)
(* Claims about BatchEngine                                                *)
(***************************************************************************)
Rejected == [ok |-> FALSE, image |-> NoImage, score |-> Nothing]

\* C15: one _run_single call with max_retries = r >= 0 never invokes the
\* pipeline more than r + 1 times, and when every attempt has failed it returns
\* (False, None, None, None) after exactly r + 1 invocations.
C15_RetryBudget ==
    /\ obs.invocations <= config.max_retries + 1
    /\ (rpc = "halt" /\ loc.attempt = obs.invocations) =>
          /\ obs.invocations = config.max_retries + 1
          /\ loc.retval = Some(Rejected)
    /\ (rpc = "halt" /\ loc.retval = Some(Rejected)) =>
          obs.invocations = config.max_retries + 1

\* C15 witness: with at least one retry allowed, every attempt failed and the
\* call returned the rejection.
C15_Witness ==
    /\ rpc = "halt"
    /\ config.max_retries >= 1
    /\ loc.attempt = obs.invocations
    /\ obs.invocations = config.max_retries + 1
    /\ loc.retval = Some(Rejected)

\* C16: the cleanup runs once after every attempt, whatever its outcome, before
\* the next attempt invokes the pipeline and before _run_single returns: at the
\* start of an attempt and at the return there have been as many cleanups as
\* pipeline invocations, and inside an attempt exactly one fewer.
C16_CleanupEveryAttempt ==
    /\ rpc \in {"rs_try", "halt"} => obs.cleanups = obs.invocations
    /\ rpc \in {"rs_gate", "rs_save", "rs_except", "rs_finally"} =>
          obs.cleanups + 1 = obs.invocations

\* C16 witness: a call that failed, was retried and was then accepted has
\* returned after two cleanups.
C16_Witness ==
    /\ rpc = "halt"
    /\ loc.retval # Nothing
    /\ loc.retval[1].ok
    /\ loc.attempt = 1
    /\ obs.invocations = 2
    /\ obs.cleanups = 2

\* The earliest of the accepted candidates with the highest score.
BestIndex(c) ==
    CHOOSE k \in 1..Len(c) :
        /\ \A j \in 1..Len(c) : c[j].score <= c[k].score
        /\ \A j \in 1..(k - 1) : c[j].score < c[k].score

\* C17: in best-of-N mode the comparator holds, whenever at least one candidate
\* of the item has been accepted, the accepted candidate with the highest
\* score, the earliest one among equals.
C17_BestOfSelection ==
    (rpc \in {"bo_loop", "bo_commit", "count"} /\ obs.candidates # <<>>) =>
        /\ comparator.best_image = obs.candidates[BestIndex(obs.candidates)].image
        /\ comparator.best_score = obs.candidates[BestIndex(obs.candidates)].score

\* C18: in best-of-N mode the save callback is not invoked before the winner is
\* committed; once the item's candidates are through it has been invoked
\* exactly once, with the winner, when a candidate was accepted, and not at all
\* when none was, in which case the item counts as rejected.
C18_SaveWinnerOnce ==
    /\ rpc # "count" => obs.saved = <<>>
    /\ rpc = "count" =>
          IF obs.candidates # <<>>
          THEN obs.saved = <<[image |-> obs.candidates[BestIndex(obs.candidates)].image,
                              rejected |-> FALSE]>>
          ELSE obs.saved = <<>> /\ ~loc.success

\* C12: in a BatchEngine run, standard or folder mode, imagen_actual never
\* exceeds total and never decreases.
C12_ProgressBounded ==
    [][/\ imagen_actual' <= total'
       /\ imagen_actual' >= imagen_actual]_vars

\* C12 witness: a folder run whose first file could not be loaded has finished
\* with imagen_actual = total = 2 files * 2.
C12_Witness ==
    /\ rpc = "returned"
    /\ config.input_folder
    /\ config.batch_size = 2
    /\ files = <<FALSE, TRUE>>
    /\ imagen_actual = 4
    /\ total = 4

\* C13: in every state of a BatchEngine run, the states between counting an
\* item and advancing the tracker included, accepted + rejected does not
\* exceed imagen_actual.
C13_CountedWithinProgress ==
    stats.accepted + stats.rejected <= imagen_actual

\* C14: whenever the engine's tracker is EJECUTANDO the process-wide lifecycle
\* machine is not IDLE.
C14_LifecycleActiveWhileRunning ==
    estado = EJECUTANDO => state # IDLE

\* C19: in standard mode, when the loop finds the cancellation signal set
\* before an item, the tracker goes to CANCELANDO and the cancellation event is
\* emitted, the tracker is then finalised to COMPLETADO, and after the event no
\* pipeline invocation is made and no item is started.
C19_CancelBeforeItem ==
    [][/\ (rpc = "loop" /\ rpc' # rpc /\ loc.i < config.batch_size /\ last_stop # None)
            => rpc' = "cancelar"
       /\ (rpc = "cancelar" /\ rpc' # rpc)
            => /\ estado' = CANCELANDO
               /\ "Lote cancelado." \in obs'.emitted
               /\ rpc' = "cancel_fin"
       /\ (rpc = "cancel_fin" /\ rpc' # rpc)
            => /\ estado' = COMPLETADO
               /\ rpc' = "final"
       /\ "Lote cancelado." \in obs.emitted
            => /\ obs'.invocations = obs.invocations
               /\ rpc' \in {"cancel_fin", "final", "returned"}
      ]_vars

\* C19 witness: a run cancelled after its first item has returned with the
\* tracker finalised and the event emitted.
C19_Witness ==
    /\ rpc = "returned"
    /\ "Lote cancelado." \in obs.emitted
    /\ estado = COMPLETADO
    /\ imagen_actual = 1
    /\ total = 2

\* C20: under every interleaving of pause() and resume() with the run loop, a
\* new item starts only while the engine is not paused, the run is never ended
\* by pause() or resume() (no call to the tracker is refused inside run), and a
\* run that returns without a cancellation has processed all its items.
C20_PauseBlocksThenContinues ==
    [][/\ (rpc' = "item" /\ rpc # "item") => pause_event'
       /\ rpc' # "crashed"
       /\ (rpc' = "returned" /\ last_stop' = None)
            => imagen_actual' = total'
      ]_vars

\* C21: once run is blocked in pause and the cancellation signal is set, the
\* run, when woken, resumes the tracker, reads the signal, takes the tracker
\* through CANCELANDO to COMPLETADO and leaves the loop, without invoking the
\* pipeline again.
C21_CancelWhilePaused ==
    [][/\ (rpc \in {"wait", "reanudar", "recheck"} /\ last_stop # None /\ rpc' # rpc)
            => /\ rpc = "wait" => rpc' = "reanudar"
               /\ rpc = "reanudar" => rpc' = "recheck"
               /\ rpc = "recheck" => rpc' = "cancelar2"
       /\ (rpc = "cancelar2" /\ rpc' # rpc)
            => /\ estado' = CANCELANDO
               /\ rpc' = "cancel_fin"
       /\ (rpc = "cancel_fin" /\ rpc' # rpc)
            => /\ estado' = COMPLETADO
               /\ rpc' = "final"
       /\ rpc \in {"cancelar2", "cancel_fin"} => obs'.invocations = obs.invocations
      ]_vars

InFlight == {"rs_try", "rs_gate", "rs_save", "rs_except", "rs_finally"}

\* C22: pause() does not interrupt or lose the item in the pipeline: the run
\* thread goes on from the pipeline call to the return of _run_single, the item
\* is counted, and the tracker is advanced for every counted item before the
\* loop comes round to suspend.
C22_PauseKeepsInFlightItem ==
    [][/\ (rpc \in InFlight /\ rpc' # rpc) => rpc' \in InFlight \cup {"single_ret"}
       /\ (rpc = "single_ret" /\ rpc' # rpc) => rpc' = "count"
       /\ (rpc = "count" /\ rpc' # rpc)
            => /\ stats'.accepted + stats'.rejected = stats.accepted + stats.rejected + 1
               /\ rpc' = "tick"
       /\ (rpc = "tick" /\ rpc' # rpc)
            => /\ imagen_actual' = imagen_actual + 1
               /\ rpc' = "loop"
      ]_vars

MaxSaves == 2

\* state_enum.GlobalState: the value of each member.
value(member) ==
    CASE member = IDLE -> "IDLE"
      [] member = PREPARING -> "PREPARING"
      [] member = RUNNING -> "EJECUTANDO"
      [] member = PAUSED -> "EN_PAUSA"
      [] member = CANCELLING -> "CANCELANDO"
      [] member = COMPLETED -> "COMPLETADO"
      [] member = ERROR -> "ERROR"

\* GlobalStateMachine.__init__
NewMachine ==
    [state |-> IDLE, current |-> 0, total |-> 0, valid |-> 0,
     mode |-> "SINGLE", paused |-> FALSE]

\* GlobalStateMachine.batch_status
batch_status(m) ==
    [current |-> m.current, total |-> m.total, valid |-> m.valid,
     mode |-> m.mode, state |-> value(m.state), paused |-> m.paused]

\* FooocArteEngine._transition: what it does to the interrupt flag.
interrupt_after(flag, new_state) ==
    IF new_state = CANCELLING THEN TRUE
    ELSE IF new_state = IDLE THEN FALSE
    ELSE flag

\* save_state_async, n times: n more threads that will run save_state.
save_state_async(n) ==
    /\ Len(savers) + n <= MaxSaves
    /\ savers' = savers \o [k \in 1..n |->
                    [pc |-> "snap_state", state |-> "", batch |-> <<>>, fd |-> 0, ok |-> TRUE]]

\* FooocArteEngine._transition through the states of path, one save thread each.
fa_transition(m, path) ==
    /\ fa' = [m EXCEPT !.state = path[Len(path)]]
    /\ interrupt' = IF Len(path) = 2
                    THEN interrupt_after(interrupt_after(interrupt, path[1]), path[2])
                    ELSE interrupt_after(interrupt, path[1])
    /\ save_state_async(Len(path))

fa_frame == UNCHANGED <<gsm_vars, bsm_vars, drv_vars, eng_vars, q_vars, in_pipeline, cli, fs, rd, gen>>

fa_start_generation ==
    /\ fa # <<>>
    /\ fa.state \in {IDLE, COMPLETED, ERROR}
    /\ \E t \in 1..MaxBatch :
         fa_transition([fa EXCEPT !.current = 0, !.valid = 0, !.total = t,
                                  !.mode = IF t > 1 THEN "BATCH" ELSE "SINGLE"],
                       <<PREPARING, RUNNING>>)
    /\ fa_frame

fa_tick ==
    /\ fa # <<>>
    /\ \E success \in BOOLEAN :
         fa' = [fa EXCEPT !.current = @ + 1,
                          !.valid = IF success THEN @ + 1 ELSE @]
    /\ save_state_async(1)
    /\ UNCHANGED interrupt
    /\ fa_frame

fa_mark_ready ==
    /\ fa # <<>>
    /\ fa_transition(fa, <<RUNNING>>)
    /\ fa_frame

fa_pause_resume ==
    /\ fa # <<>>
    /\ \E p \in BOOLEAN : p # fa.paused /\ fa' = [fa EXCEPT !.paused = p]
    /\ UNCHANGED <<interrupt, savers>>
    /\ fa_frame

fa_complete ==
    /\ fa # <<>>
    /\ fa_transition(fa, <<COMPLETED, IDLE>>)
    /\ fa_frame

fa_finish ==
    /\ fa # <<>>
    /\ \E success \in BOOLEAN :
         fa_transition(fa, <<IF success THEN COMPLETED ELSE ERROR, IDLE>>)
    /\ fa_frame

fa_error ==
    /\ fa # <<>>
    /\ fa_transition(fa, <<ERROR>>)
    /\ fa_frame

fa_cancel ==
    /\ fa # <<>>
    /\ fa.state = RUNNING
    /\ fa_transition(fa, <<CANCELLING>>)
    /\ fa_frame

fa_reset ==
    /\ fa # <<>>
    /\ fa' = [fa EXCEPT !.state = IDLE, !.current = 0, !.total = 0,
                        !.valid = 0, !.paused = FALSE]
    /\ UNCHANGED <<interrupt, savers>>
    /\ fa_frame

fa_next ==
    \/ fa_start_generation
    \/ fa_tick
    \/ fa_mark_ready
    \/ fa_pause_resume
    \/ fa_complete
    \/ fa_finish
    \/ fa_error
    \/ fa_cancel
    \/ fa_reset

\* json.dump of the snapshot, and json.load of a text (Nothing: it raises).
Encode(st, batch) ==
    <<st, batch.current, batch.total, batch.valid, batch.mode, batch.state, batch.paused>>

Garbled == <<"{">>

Decode(text) ==
    IF Len(text) = 7
    THEN Some([state |-> text[1],
               batch |-> [current |-> text[2], total |-> text[3], valid |-> text[4],
                          mode |-> text[5], state |-> text[6], paused |-> text[7]]])
    ELSE Nothing

\* The directory before any checkpoint was written.
NoFiles == [dest |-> 0, temp |-> 0, content |-> [i \in 1..MaxSaves |-> <<>>]]

save_frame == UNCHANGED <<gsm_vars, bsm_vars, drv_vars, eng_vars, q_vars, in_pipeline, cli, fa, interrupt, rd, gen>>

\* save_state: the two locked reads of the machine.
save_snap_state(i) ==
    /\ savers[i].pc = "snap_state"
    /\ savers' = [savers EXCEPT ![i].state = value(fa.state), ![i].pc = "snap_batch"]
    /\ UNCHANGED fs
    /\ save_frame

save_snap_batch(i) ==
    /\ savers[i].pc = "snap_batch"
    /\ savers' = [savers EXCEPT ![i].batch = batch_status(fa), ![i].pc = "open"]
    /\ UNCHANGED fs
    /\ save_frame

\* open(temp_path, "w"): a new file, or the file of that name emptied.
write_open(i) ==
    /\ savers[i].pc = "open"
    /\ LET ino == IF fs.temp = 0 THEN i ELSE fs.temp
       IN /\ fs' = [fs EXCEPT !.temp = ino, !.content[ino] = <<>>]
          /\ savers' = [savers EXCEPT ![i].fd = ino, ![i].pc = "dump"]
    /\ save_frame

\* json.dump and the close that flushes it: the text lands at offset 0 of
\* the open file; over another writer's text it replaces it or, when
\* shorter, leaves that text's tail behind.
write_dump(i) ==
    /\ savers[i].pc = "dump"
    /\ LET text == Encode(savers[i].state, savers[i].batch)
           old == fs.content[savers[i].fd]
       IN \E new \in IF old \in {<<>>, text} THEN {text} ELSE {text, Garbled} :
            fs' = [fs EXCEPT !.content[savers[i].fd] = new]
    /\ savers' = [savers EXCEPT ![i].pc = "exists"]
    /\ save_frame

\* if os.path.exists(path)
write_exists(i) ==
    /\ savers[i].pc = "exists"
    /\ savers' = [savers EXCEPT ![i].pc = IF fs.dest # 0 THEN "remove" ELSE "rename"]
    /\ UNCHANGED fs
    /\ save_frame

\* os.remove(path); it raises when the file is gone, and the except clause
\* ends the write.
write_os_remove(i) ==
    /\ savers[i].pc = "remove"
    /\ IF fs.dest = 0
       THEN /\ savers' = [savers EXCEPT ![i].pc = "done", ![i].ok = FALSE]
            /\ UNCHANGED fs
       ELSE /\ savers' = [savers EXCEPT ![i].pc = "rename"]
            /\ fs' = [fs EXCEPT !.dest = 0]
    /\ save_frame

\* os.rename(temp_path, path); it raises when the temporary file is gone,
\* and where the platform does not replace an existing destination.
write_os_rename(i) ==
    /\ savers[i].pc = "rename"
    /\ \E replaces \in BOOLEAN :
         IF fs.temp = 0 \/ (fs.dest # 0 /\ ~replaces)
         THEN /\ savers' = [savers EXCEPT ![i].pc = "done", ![i].ok = FALSE]
              /\ UNCHANGED fs
         ELSE /\ savers' = [savers EXCEPT ![i].pc = "done"]
              /\ fs' = [fs EXCEPT !.dest = fs.temp, !.temp = 0]
    /\ save_frame

\* Any file-system call of _atomic_write may raise (disk full, no
\* permission); the except clause prints and the write ends.
write_io_error(i) ==
    /\ savers[i].pc \in {"open", "dump", "remove", "rename"}
    /\ savers' = [savers EXCEPT ![i].pc = "done", ![i].ok = FALSE]
    /\ UNCHANGED fs
    /\ save_frame

save_state(i) ==
    \/ save_snap_state(i)
    \/ save_snap_batch(i)
    \/ write_open(i)
    \/ write_dump(i)
    \/ write_exists(i)
    \/ write_os_remove(i)
    \/ write_os_rename(i)

AllSaved == \A i \in DOMAIN savers : savers[i].pc = "done"

\* load_recovery_data, with has_recovery_data inside it.  raw is the text
\* the last open() of the checkpoint gave (Nothing before any).
NoReader == [pc |-> "idle", raw |-> Nothing, result |-> Nothing]

load_frame == UNCHANGED <<gsm_vars, bsm_vars, drv_vars, eng_vars, q_vars, in_pipeline, cli, fa, interrupt, savers, fs, gen>>

load_recovery_data ==
    /\ rd # <<>>
    /\ rd.pc \in {"idle", "ret"}
    /\ rd' = [NoReader EXCEPT !.pc = "exists"]
    /\ load_frame

has_exists ==
    /\ rd # <<>>
    /\ rd.pc = "exists"
    /\ rd' = IF fs.dest = 0 THEN [rd EXCEPT !.pc = "ret"] ELSE [rd EXCEPT !.pc = "has_load"]
    /\ load_frame

\* What has_recovery_data answers from the text it read.
has_recovery_Any(text) == Decode(text) # Nothing

has_recovery(text) ==
    /\ Decode(text) # Nothing
    /\ Decode(text)[1].state # value(IDLE)

\* The except clauses of has_recovery_data (it answers False) and of
\* load_recovery_data: the caller gets None.
load_except_Raise(r) == [r EXCEPT !.pc = "raised"]

load_except(r) == [r EXCEPT !.pc = "ret", !.result = Nothing]

has_load ==
    /\ rd # <<>>
    /\ rd.pc = "has_load"
    /\ rd' = IF fs.dest = 0
             THEN load_except(rd)
             ELSE LET r == [rd EXCEPT !.raw = Some(fs.content[fs.dest])]
                  IN IF Decode(fs.content[fs.dest]) = Nothing THEN load_except(r)
                     ELSE IF has_recovery(fs.content[fs.dest])
                          THEN [r EXCEPT !.pc = "load"]
                          ELSE [r EXCEPT !.pc = "ret"]
    /\ load_frame

load_open ==
    /\ rd # <<>>
    /\ rd.pc = "load"
    /\ rd' = IF fs.dest = 0
             THEN load_except(rd)
             ELSE LET r == [rd EXCEPT !.raw = Some(fs.content[fs.dest])]
                  IN IF Decode(fs.content[fs.dest]) = Nothing THEN load_except(r)
                     ELSE [r EXCEPT !.result = Decode(fs.content[fs.dest]), !.pc = "ret"]
    /\ load_frame

\* open() or the read of the checkpoint may raise (no permission, I/O error).
load_io_error ==
    /\ rd # <<>>
    /\ rd.pc \in {"has_load", "load"}
    /\ rd' = load_except(rd)
    /\ load_frame

load ==
    \/ load_recovery_data
    \/ has_exists
    \/ has_load
    \/ load_open

\* The machines the engine's methods leave behind: PREPARING and COMPLETADO
\* are passed through inside one call, nothing enters PAUSED.
Machines ==
    {m \in [state : {IDLE, RUNNING, CANCELLING, ERROR}, current : 0..MaxBatch,
            total : 0..MaxBatch, valid : 0..MaxBatch, mode : {"SINGLE", "BATCH"},
            paused : BOOLEAN] :
        /\ m.valid <= m.current
        /\ m.total > 1 => m.mode = "BATCH"}

\* The directory with the checkpoint an earlier session left at its start.
OldFiles ==
    [NoFiles EXCEPT !.dest = MaxSaves,
                    !.content[MaxSaves] =
                        Encode(value(RUNNING),
                               batch_status([NewMachine EXCEPT !.state = RUNNING, !.total = 1]))]

\* One caller: save_state() of an engine in any state, or no save at all,
\* and then load_recovery_data().
InitRoundTrip ==
    /\ GSMInit /\ BSMInit /\ DrvInit /\ EngInit
    /\ fa \in Machines
    /\ interrupt = FALSE /\ gen = <<>>
    /\ \/ /\ savers = <<[pc |-> "snap_state", state |-> "", batch |-> <<>>, fd |-> 0, ok |-> TRUE]>>
          /\ fs \in {NoFiles, OldFiles}
       \/ /\ savers = <<>>
          /\ fs = NoFiles
    /\ rd = NoReader
    /\ cola = <<>> /\ qhist = <<>> /\ in_pipeline = <<>> /\ cli = <<>>

NextRoundTrip ==
    \/ \E i \in DOMAIN savers : save_state(i)
    \/ AllSaved /\ load

SpecRoundTrip == InitRoundTrip /\ [][NextRoundTrip]_vars

\* The directory with a checkpoint that is empty or is no JSON text.
BadFiles == {[NoFiles EXCEPT !.dest = MaxSaves, !.content[MaxSaves] = text] : text \in {<<>>, Garbled}}

\* One caller as in SpecRoundTrip, with a file system whose calls may fail
\* and a checkpoint that may be corrupt.
InitFaulty ==
    /\ GSMInit /\ BSMInit /\ DrvInit /\ EngInit
    /\ fa \in Machines
    /\ interrupt = FALSE /\ gen = <<>>
    /\ \/ /\ savers = <<[pc |-> "snap_state", state |-> "", batch |-> <<>>, fd |-> 0, ok |-> TRUE]>>
          /\ fs \in {NoFiles, OldFiles} \cup BadFiles
       \/ /\ savers = <<>>
          /\ fs \in BadFiles
    /\ rd = NoReader
    /\ cola = <<>> /\ qhist = <<>> /\ in_pipeline = <<>> /\ cli = <<>>

NextFaulty ==
    \/ \E i \in DOMAIN savers : save_state(i)
    \/ \E i \in DOMAIN savers : write_io_error(i)
    \/ AllSaved /\ load
    \/ AllSaved /\ load_io_error

SpecFaulty == InitFaulty /\ [][NextFaulty]_vars

\* A new engine, its save threads running as they will, and a reader of the
\* checkpoint.
InitPersist ==
    /\ GSMInit /\ BSMInit /\ DrvInit /\ EngInit
    /\ fa = NewMachine
    /\ interrupt = FALSE /\ gen = <<>>
    /\ savers = <<>>
    /\ fs = NoFiles
    /\ rd = NoReader
    /\ cola = <<>> /\ qhist = <<>> /\ in_pipeline = <<>> /\ cli = <<>>

NextPersist ==
    \/ fa_next
    \/ \E i \in DOMAIN savers : save_state(i)
    \/ load

SpecPersist == InitPersist /\ [][NextPersist]_vars

\* The engine's transitions and ticks with the save threads they start.
NextSaves ==
    \/ fa_start_generation
    \/ fa_tick
    \/ fa_mark_ready
    \/ fa_complete
    \/ fa_finish
    \/ fa_error
    \/ fa_cancel
    \/ \E i \in DOMAIN savers : save_state(i)

SpecSaves == InitPersist /\ [][NextSaves]_vars


(***************************************************************************)
(* Claims about PersistenceManager and FooocArteEngine                     *)
(***************************************************************************)
\* The texts a reader may be given: a complete snapshot.
Complete(text) == Decode(text) # Nothing

\* C24: a reader of the checkpoint is given a complete snapshot or finds no
\* file, never a partly written one, and once the checkpoint exists no step
\* of a save leaves the directory without it.
C24_AtomicReplace ==
    [][/\ (rd # <<>> /\ rd'.raw # Nothing) => Complete(rd'.raw[1])
       /\ (fs # <<>> /\ fs.dest # 0) => fs'.dest # 0]_vars

\* C25: after a completed save_state, load_recovery_data returns a snapshot
\* whose lifecycle state and batch counters are those of the engine when its
\* state is not IDLE, and None when it is IDLE; with no checkpoint on disk it
\* returns None.
C25_SaveLoadRoundTrip ==
    (rd # <<>> /\ rd.pc = "ret") =>
        /\ (savers # <<>> /\ fa.state # IDLE) =>
              /\ rd.result # Nothing
              /\ rd.result[1].state = value(fa.state)
              /\ rd.result[1].batch.current = fa.current
              /\ rd.result[1].batch.total = fa.total
              /\ rd.result[1].batch.valid = fa.valid
        /\ (savers # <<>> /\ fa.state = IDLE) => rd.result = Nothing
        /\ savers = <<>> => rd.result = Nothing

C25_Witness ==
    /\ rd # <<>> /\ rd.pc = "ret" /\ rd.result # Nothing
    /\ savers # <<>> /\ savers[1].pc = "done"
    /\ fa.current = MaxBatch
    /\ fs.dest = 1

\* C26: a failure while writing a checkpoint ends the write without raising
\* and leaves the engine's lifecycle state and batch counters as they were;
\* a checkpoint that cannot be read or parsed makes load_recovery_data
\* return None, and it never raises.
C26_FailuresSwallowed ==
    [][/\ \A i \in DOMAIN savers :
            (savers[i].ok /\ ~savers'[i].ok) => (savers'[i].pc = "done" /\ fa' = fa)
       /\ rd # <<>> =>
            /\ rd'.pc # "raised"
            /\ (rd'.pc = "ret" /\ (rd'.raw = Nothing \/ ~Complete(rd'.raw[1])))
                   => rd'.result = Nothing]_vars

\* A write failed, and the corrupt checkpoint it left in place was read.
C26_Witness ==
    /\ rd # <<>> /\ rd.pc = "ret" /\ rd.result = Nothing /\ rd.raw = Some(Garbled)
    /\ savers # <<>> /\ ~savers[1].ok /\ fa.state = RUNNING

\* C27: when every save thread started so far has finished and the engine
\* makes no further transition or tick, the checkpoint on disk is the
\* snapshot of the engine's present state and counters.
C27_CheckpointIsLatest ==
    (savers # <<>> /\ AllSaved) =>
        /\ fs.dest # 0
        /\ Decode(fs.content[fs.dest]) = Some([state |-> value(fa.state), batch |-> batch_status(fa)])

\* C28: every change of the engine's lifecycle state to CANCELLING sets the
\* interrupt flag and every change to IDLE, by whatever operation, clears
\* it, so the flag is never set while the lifecycle state is IDLE.
C28_InterruptFollowsState ==
    [][fa # <<>> =>
        /\ (fa'.state = CANCELLING /\ fa.state # CANCELLING) => interrupt'
        /\ (fa'.state = IDLE /\ fa.state # IDLE) => ~interrupt'
        /\ fa'.state = IDLE => ~interrupt']_vars

(***************************************************************************)
(* Part 5: BatchQueue (modules/batch_queue.py), called from two threads.   *)
(* A thread is followed through the statements of a method inside the      *)
(* class lock; longitud() reads the deque without the lock.  qhist keeps    *)
(* the lock, each thread's position, argument and last result, and what    *)
(* was added and removed so far.                                           *)
(***************************************************************************)
MaxTasks == 3

\* A task is an object (numbered in the order of the adds) or None; None is
\* Nothing, an object is Some(number).
NextTask == Len(qhist.added) + 1

NoResult == [op |-> "none", value |-> Nothing, was_empty |-> FALSE, adds |-> 0, removals |-> 0]

\* BatchQueue.__new__: the one instance, empty.
NewQueue ==
    [lock |-> "free", tpc |-> [t \in Threads |-> "idle"], targ |-> [t \in Threads |-> Nothing],
     ret |-> [t \in Threads |-> NoResult], added |-> <<>>, taken |-> <<>>]

q_frame == UNCHANGED <<gsm_vars, bsm_vars, drv_vars, eng_vars, per_vars, in_pipeline, cli>>

\* with self._lock
acquire_Unlocked(t) == qhist.tpc[t] = "idle"

acquire(t) == qhist.tpc[t] = "idle" /\ qhist.lock = "free"

agregar_enter(t) ==
    /\ acquire(t)
    /\ Len(qhist.added) < MaxTasks
    /\ \E task \in {Some(NextTask), Nothing} :
         qhist' = [qhist EXCEPT !.lock = t, !.tpc[t] = "append", !.targ[t] = task]
    /\ UNCHANGED cola
    /\ q_frame

agregar_append(t) ==
    /\ qhist.tpc[t] = "append"
    /\ cola' = Append(cola, qhist.targ[t])
    /\ qhist' = [qhist EXCEPT !.tpc[t] = "len", !.added = Append(@, qhist.targ[t])]
    /\ q_frame

agregar_return(t) ==
    /\ qhist.tpc[t] = "len"
    /\ qhist' = [qhist EXCEPT !.tpc[t] = "idle", !.lock = "free",
                              !.ret[t] = [NoResult EXCEPT !.op = "agregar", !.value = Len(cola)]]
    /\ UNCHANGED cola
    /\ q_frame

obtener_enter(t) ==
    /\ acquire(t)
    /\ qhist' = [qhist EXCEPT !.lock = t, !.tpc[t] = "check"]
    /\ UNCHANGED cola
    /\ q_frame

\* if self.cola: ... else return None
obtener_check(t) ==
    /\ qhist.tpc[t] = "check"
    /\ qhist' = IF cola # <<>>
                THEN [qhist EXCEPT !.tpc[t] = "popleft"]
                ELSE [qhist EXCEPT !.tpc[t] = "idle", !.lock = "free",
                                   !.ret[t] = [NoResult EXCEPT !.op = "obtener", !.was_empty = TRUE]]
    /\ UNCHANGED cola
    /\ q_frame

\* return self.cola.popleft(); popleft of an empty deque raises IndexError.
obtener_popleft(t) ==
    /\ qhist.tpc[t] = "popleft"
    /\ IF cola # <<>>
       THEN /\ cola' = Tail(cola)
            /\ qhist' = [qhist EXCEPT !.tpc[t] = "idle", !.lock = "free",
                                      !.taken = Append(@, Head(cola)),
                                      !.ret[t] = [NoResult EXCEPT !.op = "obtener", !.value = Head(cola)]]
       ELSE /\ UNCHANGED cola
            /\ qhist' = [qhist EXCEPT !.tpc[t] = "idle", !.lock = "free",
                                      !.ret[t] = [NoResult EXCEPT !.op = "IndexError"]]
    /\ q_frame

\* longitud(), with the adds and removals done when it read the length.
longitud(t) ==
    /\ qhist.tpc[t] = "idle"
    /\ qhist' = [qhist EXCEPT !.ret[t] = [NoResult EXCEPT !.op = "longitud", !.value = Len(cola),
                                                           !.adds = Len(qhist.added),
                                                           !.removals = Len(qhist.taken)]]
    /\ UNCHANGED cola
    /\ q_frame

InitQueue ==
    /\ GSMInit /\ BSMInit /\ DrvInit /\ EngInit
    /\ fa = <<>> /\ interrupt = FALSE /\ gen = <<>> /\ savers = <<>> /\ fs = <<>> /\ rd = <<>>
    /\ cola = <<>>
    /\ qhist = NewQueue
    /\ in_pipeline = <<>> /\ cli = <<>>

NextQueue ==
    \E t \in Threads :
        \/ agregar_enter(t)
        \/ agregar_append(t)
        \/ agregar_return(t)
        \/ obtener_enter(t)
        \/ obtener_check(t)
        \/ obtener_popleft(t)
        \/ longitud(t)

SpecQueue == InitQueue /\ [][NextQueue]_vars

(***************************************************************************)
(* Claims about BatchQueue                                                  *)
(***************************************************************************)
\* C29: the values removed are, in order, the values added (nothing lost,
\* nothing returned twice), what is still queued is the rest of them, a call
\* that finds the queue empty returns None and leaves it unchanged, a None
\* from a non-empty queue is a None that was added, and longitud() is the
\* number of adds minus the number of removals.
C29_QueueIsFIFO ==
    /\ qhist # <<>> =>
         /\ qhist.taken = SubSeq(qhist.added, 1, Len(qhist.taken))
         /\ cola = SubSeq(qhist.added, Len(qhist.taken) + 1, Len(qhist.added))
         /\ \A t \in Threads :
              LET r == qhist.ret[t]
              IN /\ r.op # "IndexError"
                 /\ (r.op = "obtener" /\ r.was_empty) => r.value = Nothing
                 /\ (r.op = "obtener" /\ ~r.was_empty /\ r.value = Nothing)
                        => \E k \in 1..Len(qhist.taken) : qhist.taken[k] = Nothing
                 /\ r.op = "longitud" => r.value = r.adds - r.removals

\* Two threads added and removed, and the second task came out second.
C29_Witness ==
    /\ qhist # <<>>
    /\ Len(qhist.added) = MaxTasks
    /\ Len(qhist.taken) >= 2 /\ qhist.taken[2] = Some(2)
    /\ qhist.ret["t1"].op = "obtener" /\ qhist.ret["t2"].op = "obtener"
    /\ qhist.ret["t1"].value # Nothing /\ qhist.ret["t2"].value # Nothing

\* C29 as stated: obtener_siguiente returns None exactly when the queue is
\* empty.
C29_NoneOnlyWhenEmpty ==
    qhist # <<>> =>
        \A t \in Threads :
            qhist.ret[t].op = "obtener" => (qhist.ret[t].value = Nothing <=> qhist.ret[t].was_empty)

(***************************************************************************)
(* Part 6: worker threads that take tasks from the BatchQueue and run a    *)
(* BatchEngine on each.  Of a run only its calls of the synthesis pipeline *)
(* (process_tasks in _run_single) are followed: when a call begins and     *)
(* when it returns.  Neither the queue nor the engine takes any lock or    *)
(* consults batch_actual or a lifecycle machine before the call.           *)
(***************************************************************************)
pl_frame == UNCHANGED <<gsm_vars, bsm_vars, drv_vars, eng_vars, per_vars, cola, cli>>

\* BatchEngine(...).run(task) on the task obtener_siguiente has returned.
worker_run(t) ==
    /\ in_pipeline[t] = "idle"
    /\ qhist.tpc[t] = "idle"
    /\ qhist.ret[t].op = "obtener" /\ qhist.ret[t].value # Nothing
    /\ in_pipeline' = [in_pipeline EXCEPT ![t] = "run"]
    /\ qhist' = [qhist EXCEPT !.ret[t] = NoResult]
    /\ pl_frame

\* _run_single: results = process_tasks(...) begins.
process_tasks_call(t) ==
    /\ in_pipeline[t] = "run"
    /\ in_pipeline' = [in_pipeline EXCEPT ![t] = "process_tasks"]
    /\ UNCHANGED qhist
    /\ pl_frame

\* process_tasks returns or raises; the run goes on to another attempt or
\* item, or ends.
process_tasks_return(t) ==
    /\ in_pipeline[t] = "process_tasks"
    /\ \E more \in BOOLEAN :
         in_pipeline' = [in_pipeline EXCEPT ![t] = IF more THEN "run" ELSE "idle"]
    /\ UNCHANGED qhist
    /\ pl_frame

InitPipeline ==
    /\ GSMInit /\ BSMInit /\ DrvInit /\ EngInit
    /\ fa = <<>> /\ interrupt = FALSE /\ gen = <<>> /\ savers = <<>> /\ fs = <<>> /\ rd = <<>>
    /\ cola = <<>>
    /\ qhist = NewQueue
    /\ in_pipeline = [t \in Threads |-> "idle"] /\ cli = <<>>

NextPipeline ==
    \E t \in Threads :
        \/ agregar_enter(t)
        \/ agregar_append(t)
        \/ agregar_return(t)
        \/ obtener_enter(t)
        \/ obtener_check(t)
        \/ obtener_popleft(t)
        \/ worker_run(t)
        \/ process_tasks_call(t)
        \/ process_tasks_return(t)

SpecPipeline == InitPipeline /\ [][NextPipeline]_vars

\* C30: at most one call of the synthesis pipeline is in progress at any
\* time, whichever runs and threads make the calls.
C30_OnePipelineCall ==
    in_pipeline # <<>> =>
        Cardinality({t \in Threads : in_pipeline[t] = "process_tasks"}) <= 1

(***************************************************************************)
(* Part 1, continued: the query API of GlobalStateMachine                  *)
(* (modules/global_state_machine.py); each predicate reads the state       *)
(* property once.                                                          *)
(***************************************************************************)
\* can_start / can_pause / can_resume / can_cancel, by the operation they
\* speak for.
can(op, s) ==
    CASE op = "start_generation" -> s = IDLE
      [] op = "pause" -> s = RUNNING
      [] op = "resume" -> s = PAUSED
      [] op = "cancel" -> s \in {RUNNING, PAUSED}

\* Those of is_idle, is_active and is_terminal that answer True.
is_kinds(s) ==
    (IF s = IDLE THEN {"is_idle"} ELSE {}) \cup
    (IF s \in {PREPARING, RUNNING, PAUSED} THEN {"is_active"} ELSE {}) \cup
    (IF s \in {COMPLETED, ERROR, CANCELLING} THEN {"is_terminal"} ELSE {})

(***************************************************************************)
(* Part 7: generate_once (fooocarte/core/generation/generator.py), the     *)
(* unit of work of the lifecycle engine: after process_task has returned   *)
(* an image it applies the CLIP gate and ticks the engine.  gen holds      *)
(* engine.clip_threshold, the score the image gets from the scorer, the   *)
(* verdict and the number of calls.                                        *)
(***************************************************************************)
NewGen(threshold) == [threshold |-> threshold, score |-> 0, is_valid |-> TRUE, calls |-> 0]

\* if engine.clip_threshold > 0: ... if score < engine.clip_threshold
clip_rejects(threshold, score) == threshold > 0 /\ score < threshold

generate_once ==
    /\ gen # <<>>
    /\ \E score \in Scores :
         LET is_valid == ~clip_rejects(gen.threshold, score)
         IN /\ gen' = [gen EXCEPT !.score = score, !.is_valid = is_valid, !.calls = @ + 1]
            /\ fa' = [fa EXCEPT !.current = @ + 1,
                                !.valid = IF is_valid THEN @ + 1 ELSE @]
    /\ save_state_async(1)
    /\ UNCHANGED <<gsm_vars, bsm_vars, drv_vars, eng_vars, q_vars, in_pipeline, cli,
                   interrupt, fs, rd>>

\* The two places that apply the quality gate, used by one caller: a
\* _run_single call of a BatchEngine and, once it has returned, generate_once
\* calls on a lifecycle engine.
InitGate ==
    /\ GSMInit /\ BSMInit /\ DrvInit
    /\ config \in {c \in Configs : c.batch_size = 1 /\ c.best_of_n = 1 /\ ~c.input_folder}
    /\ clip_threshold \in Scores
    /\ files = <<>>
    /\ stats = BatchStats
    /\ pause_event = TRUE
    /\ last_stop = None
    /\ rpc = "rs_try"
    /\ loc = call_run_single(RunLocals, TRUE, "halt")
    /\ comparator = <<>>
    /\ obs = NoObs
    /\ cpc = "off"
    /\ fa = NewMachine
    /\ interrupt = FALSE
    /\ gen \in {NewGen(th) : th \in Scores}
    /\ savers = <<>> /\ fs = NoFiles /\ rd = NoReader
    /\ cola = <<>> /\ qhist = <<>> /\ in_pipeline = <<>> /\ cli = <<>>

NextGate ==
    \/ run_single
    \/ rpc = "halt" /\ generate_once

SpecGate == InitGate /\ [][NextGate]_vars

C32_SaveAfterEveryChange ==
    [][(fa # <<>> /\ (fa'.state # fa.state \/ fa'.current # fa.current
                      \/ fa'.total # fa.total \/ fa'.valid # fa.valid))
          => Len(savers') > Len(savers)]_vars

\* C33: the engine's batch_current never exceeds its batch_total, and
\* batch_current goes back to 0 only in start_generation or reset.
C33_CurrentWithinTotal ==
    [][fa # <<>> =>
        /\ fa'.current <= fa'.total
        /\ fa'.current < fa.current =>
              /\ fa'.current = 0
              /\ \/ fa'.state = RUNNING /\ fa'.total >= 1
                 \/ fa'.state = IDLE /\ fa'.total = 0]_vars

\* C34: in folder mode the cancellation signal is polled before each item
\* (each file x batch_size iteration), so no item's pipeline call starts once
\* a cancel has been requested, and a folder run that was not cancelled
\* leaves the tracker in COMPLETADO.
C34_FolderSuspensionPoints ==
    [][config.input_folder =>
        /\ (rpc = "inner" /\ last_stop # None) => rpc' # "rs_try"
        /\ (rpc = "report" /\ rpc' = "returned" /\ last_stop = None)
              => estado' = COMPLETADO]_vars

\* C35: can_start, can_pause, can_resume and can_cancel are true exactly in
\* the states from which start_generation, pause, resume and cancel succeed,
\* and exactly one of is_idle, is_active, is_terminal is true.
C35_QueriesAgreeWithOperations ==
    /\ Cardinality(is_kinds(state)) = 1
    /\ \A t \in Threads :
         ret[t].op \in {"start_generation", "pause", "resume", "cancel"}
            => (ret[t].ok <=> can(ret[t].op, ret[t].from))

(***************************************************************************)
(* Part 8.  Threads sharing one GlobalStateMachine (test_thread_safety):   *)
(* the main thread brings the machine to RUNNING, then starts reader       *)
(* threads, which append sm.state to a shared list, and writer threads,    *)
(* which run "if can_pause(): pause()", "if can_resume(): resume()".       *)
(* Every property read and every _transition is one lock section.          *)
(***************************************************************************)
MaxToggles == 2
MaxReads == 2

Readers == {"r1", "r2"}
Writers_Two == Threads
Writers == {"t2"}

NewClients ==
    [main    |-> "start_generation",
     wpc     |-> [t \in Threads |-> "can_pause"],
     round   |-> [t \in Threads |-> 0],
     reads   |-> [r \in Readers |-> 0],
     results |-> <<>>]

cli_frame == UNCHANGED <<arg, bsm_vars, drv_vars, eng_vars, per_vars, q_vars, in_pipeline>>

\* sm.start_generation(); sm.mark_ready() on the main thread, before any
\* other thread is started.
main_setup ==
    /\ cli.main \in {"start_generation", "mark_ready"}
    /\ Transition(MainThread, cli.main, NoneArg, "idle")
    /\ cli' = [cli EXCEPT !.main = IF cli.main = "start_generation"
                                   THEN "mark_ready" ELSE "started"]
    /\ cli_frame

\* Where a writer goes after a step: an exception ends its thread, and the
\* loop ends after MaxToggles rounds.
AfterCall(t, ok, to) ==
    IF ~ok THEN [cli EXCEPT !.wpc[t] = "raised"]
    ELSE IF to = "can_pause"
         THEN [cli EXCEPT !.round[t] = @ + 1,
                          !.wpc[t] = IF cli.round[t] + 1 < MaxToggles
                                     THEN "can_pause" ELSE "done"]
         ELSE [cli EXCEPT !.wpc[t] = to]

\* write_state: if sm.can_pause():
write_can_pause(t) ==
    /\ cli.main = "started" /\ cli.wpc[t] = "can_pause"
    /\ cli' = AfterCall(t, TRUE, IF can("pause", state) THEN "pause" ELSE "can_resume")
    /\ UNCHANGED gsm_vars /\ UNCHANGED <<bsm_vars, drv_vars, eng_vars, per_vars, q_vars, in_pipeline>>

\* write_state: sm.pause()
write_pause(t) ==
    /\ cli.wpc[t] = "pause"
    /\ Transition(t, "pause", NoneArg, "idle")
    /\ cli' = AfterCall(t, ret'[t].ok, "can_resume")
    /\ cli_frame

\* write_state: if sm.can_resume():
write_can_resume(t) ==
    /\ cli.wpc[t] = "can_resume"
    /\ cli' = AfterCall(t, TRUE, IF can("resume", state) THEN "resume" ELSE "can_pause")
    /\ UNCHANGED gsm_vars /\ UNCHANGED <<bsm_vars, drv_vars, eng_vars, per_vars, q_vars, in_pipeline>>

\* write_state: sm.resume()
write_resume(t) ==
    /\ cli.wpc[t] = "resume"
    /\ Transition(t, "resume", NoneArg, "idle")
    /\ cli' = AfterCall(t, ret'[t].ok, "can_pause")
    /\ cli_frame

\* read_state: state = sm.state; results.append(state)
read_state(r) ==
    /\ cli.main = "started" /\ cli.reads[r] < MaxReads
    /\ cli' = [cli EXCEPT !.reads[r] = @ + 1, !.results = Append(@, state)]
    /\ UNCHANGED gsm_vars /\ UNCHANGED <<bsm_vars, drv_vars, eng_vars, per_vars, q_vars, in_pipeline>>

InitToggle ==
    /\ GSMInit /\ BSMInit /\ DrvInit /\ EngInit
    /\ fa = <<>> /\ interrupt = FALSE /\ gen = <<>> /\ savers = <<>> /\ fs = <<>> /\ rd = <<>>
    /\ cola = <<>> /\ qhist = <<>> /\ in_pipeline = <<>>
    /\ cli = NewClients

NextToggle ==
    \/ main_setup
    \/ \E t \in Writers : write_can_pause(t)
    \/ \E t \in Writers : write_pause(t)
    \/ \E t \in Writers : write_can_resume(t)
    \/ \E t \in Writers : write_resume(t)
    \/ \E r \in Readers : read_state(r)

SpecToggle == InitToggle /\ [][NextToggle]_vars

\* C36: with the machine in RUNNING, one writer thread running
\* "if can_pause(): pause()", "if can_resume(): resume()" next to any readers
\* of state never has a call raise, and every state a reader gets is RUNNING
\* or PAUSED.
C36_ToggleNeverRaises ==
    (cli # <<>> /\ cli.main = "started") =>
        /\ \A t \in Threads : ret[t].ok /\ cli.wpc[t] # "raised"
        /\ \A i \in 1..Len(cli.results) : cli.results[i] \in {RUNNING, PAUSED}

\* The writer has paused and resumed, and the readers saw the pause and the
\* RUNNING state after it.
C36_Witness ==
    /\ cli # <<>>
    /\ \E t \in Writers : ret[t] = Returned("resume", PAUSED)
    /\ \E i, j \in 1..Len(cli.results) :
         i < j /\ cli.results[i] = PAUSED /\ cli.results[j] = RUNNING

\* C37: between calls, the stored error message is non-None only while the
\* state is ERROR, whatever successful and failing calls were made before.
C37_MessageOnlyInError ==
    (pc[MainThread] = "idle" /\ state # ERROR) => error_message = None

\* to_dict(): the state and a copy of the metadata, read in one lock section.
to_dict == [state |-> state, metadata |-> metadata]

\* The record of the start_generation that began the current run, if the
\* history still holds it.
RunStart ==
    LET starts == {i \in 1..Len(state_history) : state_history[i].to = PREPARING}
    IN  IF starts = {} THEN <<>>
        ELSE <<state_history[CHOOSE i \in starts : \A j \in starts : j <= i]>>

\* C38, first half: no reader gets state IDLE together with metadata left by
\* the finished run.
C38_NoIdleWithOldMetadata ==
    to_dict.state = IDLE => to_dict.metadata = <<>>

\* C38, second half: metadata given to a start_generation that succeeded
\* stays in the machine until the next reset.
C38_StartMetadataKept ==
    (state # IDLE /\ RunStart # <<>>) =>
        \A k \in DOMAIN RunStart[1].metadata :
            k \in DOMAIN to_dict.metadata /\ to_dict.metadata[k] = RunStart[1].metadata[k]

\* C38: reset() is atomic with respect to other threads: no reader observes
\* IDLE with the finished run's metadata, and the metadata of a
\* start_generation that succeeds after another thread's reset moved the
\* machine to IDLE is kept until the next reset.
C38_ResetIsAtomic ==
    C38_NoIdleWithOldMetadata /\ C38_StartMetadataKept

\* load_recovery_data on a checkpoint directory nobody is writing to.
recovery_data(dir) ==
    IF dir.dest = 0 THEN Nothing
    ELSE IF has_recovery(dir.content[dir.dest]) THEN Decode(dir.content[dir.dest])
    ELSE Nothing

\* C39: whenever the engine's lifecycle state is back at IDLE (through
\* complete, finish or reset) and every background checkpoint write has
\* finished, load_recovery_data returns None.
C39_NoRecoveryAfterIdle ==
    (fa # <<>> /\ fa.state = IDLE /\ AllSaved) => recovery_data(fs) = Nothing

\* The items a run has counted so far.
counted(s) == s.accepted + s.rejected

\* C40: in a standard-mode run, for any best_of_n, every completed item adds
\* one to exactly one of stats.accepted and stats.rejected and advances the
\* tracker by one tick, nothing else changes either, so that between items
\* accepted + rejected = imagen_actual, and when an uncancelled run returns
\* both equal batch_size.
C40_OneCountOneTick ==
    [][~config.input_folder =>
        /\ (rpc = "count" /\ rpc' # rpc)
              => /\ counted(stats') = counted(stats) + 1
                 /\ stats'.accepted >= stats.accepted
                 /\ stats'.rejected >= stats.rejected
        /\ rpc # "count" => counted(stats') = counted(stats)
        /\ (rpc = "tick" /\ rpc' = "loop") => imagen_actual' = imagen_actual + 1
        /\ rpc # "tick" => imagen_actual' = imagen_actual
        /\ rpc' = "loop" => /\ counted(stats') = imagen_actual'
                            /\ imagen_actual' = loc'.i
        /\ (rpc' = "returned" /\ last_stop' = None)
              => /\ counted(stats') = config.batch_size
                 /\ imagen_actual' = config.batch_size
      ]_vars

\* C40 witness: a best-of-2 run of two items has returned, one item accepted
\* and one rejected, the tracker at 2.
C40_Witness ==
    /\ rpc = "returned"
    /\ ~config.input_folder
    /\ config.best_of_n = 2
    /\ config.batch_size = MaxBatch
    /\ stats.accepted = 1
    /\ stats.rejected = MaxBatch - 1
    /\ imagen_actual = MaxBatch
    /\ last_stop = None
    /\ estado = COMPLETADO

\* C11: reset succeeds only from COMPLETADO or ERROR and then leaves the tracker
\* in INACTIVO with imagen_actual = 0, total = 0 and error = None; from any other
\* state it raises and changes none of estado, imagen_actual, total, error.
C11_ResetOnlyWhenFinished ==
    [][bsm_reset =>
          IF estado \in {COMPLETADO, ERROR_BATCH}
          THEN /\ bret'.exc = "none"
               /\ estado' = INACTIVO
               /\ imagen_actual' = 0
               /\ total' = 0
               /\ error' = None
          ELSE /\ bret'.exc = "RuntimeError"
               /\ UNCHANGED <<estado, imagen_actual, total, error>>
      ]_vars

\* C11 witness: a batch that failed part-way has been reset.
C11_Witness ==
    /\ bret = BReturned("reset")
    /\ estado = INACTIVO
    /\ imagen_actual = 0
    /\ total = 0
    /\ error = None

====
